---- MODULE Spec2Model ----
(***************************************************************************)
(* Route Sync Unified V4 (google-apps-script/route_sync_unified_v4.gs):   *)
(* the lock-guarded, self-rescheduling batch run over a persisted work    *)
(* queue, the two operator entrypoints that write the state document, and *)
(* the per-item extract / clean / geocode / publish step.                 *)
(***************************************************************************)
EXTENDS Integers, Sequences, FiniteSets, TLC

(* ---------------- bounds of the model ---------------- *)
\* source documents that can exist under Routes/RegEd and Routes/SpecEd/<bus>
MaxFiles == 3
\* last-updated timestamps range over 0..MaxMs (0: getLastUpdated() gave nothing)
MaxMs == 2
\* an extraction yields at most this many cleaned routes for one document
MaxRoutes == 2
\* distinct stop locations (geocoding queries)
NumLocs == 2
\* the batch size the model runs with; the script ships 6 and documents it as
\* a tuning knob (6 -> 8 -> 10).  The model keeps it below MaxFiles so that a
\* queue longer than one batch exists.
BatchBound == 2
\* runs of the operator's entrypoints (rebuild-only, reset, installing the
\* recurring trigger) in one behaviour
MaxOperatorCalls == 1
\* edits of source documents in one behaviour
MaxTouches == 1
\* exceptions thrown by the services (Drive, Docs, Sheets, Maps, the generative
\* service, ScriptApp) in one behaviour
MaxFaults == 1
\* publishes of cleaned routes into the Bus Stops folder in one behaviour
MaxPublishes == 4

(* ---------------- program constants ---------------- *)
BATCH_SIZE_V4 == BatchBound
WRITE_JSON_V4 == TRUE
WRITE_SHEETS_V4 == TRUE

Files == 1..MaxFiles
\* concurrent executions of the sync entrypoint (Apps Script runs them in
\* separate processes: a trigger firing while a manual run is active)
Invocations == {"a", "b"}
NoOne == "free"
Operators == {"rebuildQueueOnlyV4", "resetRouteSyncUnifiedV4"}

Min(x, y) == IF x < y THEN x ELSE y

\* executions of the sync entrypoint started in one behaviour: two passes over
\* the longest queue
MaxInvokes == 2 * ((MaxFiles + BATCH_SIZE_V4 - 1) \div BATCH_SIZE_V4)

(* ---------------- JavaScript text conversions ---------------- *)
\* String(n) for a non-negative integer: its decimal digits
RECURSIVE Digits(_)
Digits(n) == IF n < 10 THEN <<n>> ELSE Append(Digits(n \div 10), n % 10)

\* String(item.updatedMs || ''): 0 is falsy, so it becomes the empty text
SkipKeyOfItem(item) == IF item.updatedMs = 0 THEN <<>> ELSE Digits(item.updatedMs)

\* String(prev || '') with prev = state.processed[item.fileId]
PrevText(processed, f) == IF f \in DOMAIN processed THEN processed[f] ELSE <<>>

\* String(item.updatedMs || 0): the fingerprint recorded in processed
Fingerprint(item) == IF item.updatedMs = 0 THEN Digits(0) ELSE Digits(item.updatedMs)

\* a skip check that never matches
UnchangedNever(processed, item) == FALSE

\* the skip check of line 58
UnchangedItem(processed, item) == PrevText(processed, item.fileId) = SkipKeyOfItem(item)

(* ---------------- queue builder ---------------- *)
RouteType(f) == IF f % 2 = 1 THEN "REGED_DOC" ELSE "SPECED_PDF"

MakeItem(f, ms) == [fileId |-> f, routeType |-> RouteType(f), updatedMs |-> ms]

\* the scan: RegEd documents first, then the SpecEd bus folders' PDFs
RECURSIVE ScanFrom(_, _, _)
ScanFrom(src, type, f) ==
  IF f > MaxFiles THEN <<>>
  ELSE IF f \in DOMAIN src /\ RouteType(f) = type
       THEN <<MakeItem(f, src[f])>> \o ScanFrom(src, type, f + 1)
       ELSE ScanFrom(src, type, f + 1)

ScanSources(src) == ScanFrom(src, "REGED_DOC", 1) \o ScanFrom(src, "SPECED_PDF", 1)

\* a sort that puts the later of two equally recent items first
RECURSIVE InsertDescTiesReversed(_, _)
InsertDescTiesReversed(sorted, item) ==
  IF sorted = <<>> THEN <<item>>
  ELSE IF Head(sorted).updatedMs > item.updatedMs
       THEN <<Head(sorted)>> \o InsertDescTiesReversed(Tail(sorted), item)
       ELSE <<item>> \o sorted

\* queue.sort(b.updatedMs - a.updatedMs): stable, most recently updated first
RECURSIVE InsertDesc(_, _)
InsertDesc(sorted, item) ==
  IF sorted = <<>> THEN <<item>>
  ELSE IF Head(sorted).updatedMs >= item.updatedMs
       THEN <<Head(sorted)>> \o InsertDesc(Tail(sorted), item)
       ELSE <<item>> \o sorted

RECURSIVE SortDesc(_)
SortDesc(q) == IF q = <<>> THEN <<>> ELSE InsertDesc(SortDesc(SubSeq(q, 1, Len(q) - 1)), q[Len(q)])

rebuildQueueV4_(state, src) == [state EXCEPT !.queue = SortDesc(ScanSources(src)), !.pos = 0]

(* ---------------- persisted state ---------------- *)
EmptyState == [queue |-> <<>>, pos |-> 0, processed |-> <<>>, geocodeCache |-> <<>>]

\* a load that takes whatever the document holds
loadStateUnguarded(d) == IF d.exists THEN d.doc ELSE EmptyState

\* the state document is missing until the first save; load then gives
\* EmptyState, and so it does when JSON.parse throws on the document's text
\* (parses: whether the text is JSON; doc: the state the text spells out)
loadStateV4_(d) == IF d.exists /\ d.parses THEN d.doc ELSE EmptyState

\* a save that writes the cursor as 0
saveStateWithoutCursor(state) ==
  [exists |-> TRUE, parses |-> TRUE, doc |-> [state EXCEPT !.pos = 0]]

\* setContent(JSON.stringify(state)), or createFile
saveStateV4_(state) == [exists |-> TRUE, parses |-> TRUE, doc |-> state]

\* a run that rebuilds whatever it loaded
NeedsRebuildAlways(state) == TRUE

\* !Array.isArray(state.queue) || state.pos >= state.queue.length; the loaded
\* queue is always an array (loadStateV4_ substitutes [])
NeedsRebuild(state) == state.pos >= Len(state.queue)


(* ---------------- per-item pipeline ---------------- *)
\* the stop location of the r-th cleaned route of document f (one stop per
\* route; documents share locations, so a later item can hit the cache)
StopLocs(f, nr) == [r \in 1..nr |-> ((f + r) % NumLocs) + 1]

\* the number of cleaned routes document f yields when it yields any: a RegEd
\* sheet with stops in several period buckets, a PDF with one route
RoutesOf(f) == 1 + (f % MaxRoutes)

\* the geocoding service: which locations it has a match for, and the
\* coordinates it returns for them
HasMatch(loc) == loc % 2 = 1
CoordOf(loc) == loc

\* geocodeStopsV4_ over the stops' locations; `throws`: the service call fails
\* on every attempt of withRetryV4_ (the exception leaves geocodeStopsV4_).
\* queries: the locations sent to the service, in order.  A match is stored in
\* the cache; a query without a match is not.
RECURSIVE GeocodeFrom(_, _, _, _, _, _)
GeocodeFrom(cache, locs, k, throws, queries, stops) ==
  IF k > Len(locs)
  THEN [cache |-> cache, calls |-> Len(queries), queries |-> queries, stops |-> stops,
        threw |-> FALSE]
  ELSE LET loc == locs[k] IN
       IF loc \in DOMAIN cache
       THEN GeocodeFrom(cache, locs, k + 1, throws, queries,
                        Append(stops, [loc |-> loc, coord |-> cache[loc], geocodeError |-> FALSE]))
       ELSE IF throws
       THEN [cache |-> cache, calls |-> Len(queries) + 1, queries |-> Append(queries, loc),
             stops |-> stops, threw |-> TRUE]
       ELSE IF HasMatch(loc)
       THEN GeocodeFrom((loc :> CoordOf(loc)) @@ cache, locs, k + 1, throws, Append(queries, loc),
                        Append(stops, [loc |-> loc, coord |-> CoordOf(loc), geocodeError |-> FALSE]))
       ELSE GeocodeFrom(cache, locs, k + 1, throws, Append(queries, loc),
                        Append(stops, [loc |-> loc, coord |-> 0, geocodeError |-> TRUE]))

\* a geocoding pass that removes the stops the service has no match for
geocodeStopsDropsMisses(cache, locs, throws) ==
  LET geo == GeocodeFrom(cache, locs, 1, throws, <<>>, <<>>)
      Located(stop) == ~stop.geocodeError
  IN [geo EXCEPT !.stops = SelectSeq(geo.stops, Located)]

geocodeStopsV4_(cache, locs, throws) == GeocodeFrom(cache, locs, 1, throws, <<>>, <<>>)

\* of the queries an item sent, those sent before in the same run
RepeatCalls(before, queries) ==
  Cardinality({k \in 1..Len(queries) :
                 queries[k] \in before \/ \E j \in 1..(k - 1) : queries[j] = queries[k]})

\* publishRoutesV4_'s loop writes, per cleaned route, the JSON artifact and then
\* the sheet mirror.  fault = 0: no write throws; fault = k: the k-th write
\* throws.  The number of JSON artifacts written before the loop ends:
WritesPerRoute == IF WRITE_SHEETS_V4 THEN 2 ELSE 1

JsonWritten(nr, fault) ==
  IF fault = 0 THEN nr
  ELSE IF WRITE_SHEETS_V4 THEN fault \div 2 ELSE fault - 1

\* the artifacts of document f after writing its first w routes at timestamp ms
upsertJsonV4_(arts, f, w, ms) ==
  [p \in DOMAIN arts \cup {<<f, r>> : r \in 1..w} |->
     IF p[1] = f /\ p[2] <= w THEN ms ELSE arts[p]]

(* ---------------- triggers ---------------- *)
\* removeTriggersV4_ deletes every project trigger whose handler is the sync
\* entrypoint; scheduleNextV4_ does that and creates one one-off trigger
removeTriggersV4_(t) == [cont |-> 0, recurring |-> FALSE]

\* a scheduleNext that creates its trigger next to the existing ones
scheduleNextKeepsOld(t) == [t EXCEPT !.cont = @ + 1]

\* a scheduleNext that removes the triggers and creates none
scheduleNextCreatesNone(t) == removeTriggersV4_(t)
scheduleNextV4_(t) == [removeTriggersV4_(t) EXCEPT !.cont = @ + 1]

(* ---------------- state ---------------- *)
VARIABLES
  src,        \* source documents in the recency window: file id -> last-updated ms
  disk,       \* the persisted state document
  artifacts,  \* published JSON artifacts: <<file id, route>> -> sourceUpdatedMs
  logSheet,   \* the Logs sheet: the number of row batches appended to it
  triggers,   \* project triggers of the sync entrypoint
  lock,       \* holder of the script lock
  pc,         \* position of each invocation of syncRoutesUnifiedV4
  mem,        \* each invocation's in-memory state object
  endIdx,     \* each invocation's `end`
  logs,       \* each invocation's `logs` (kinds of the lines pushed)
  startPos,   \* history: state.pos when the batch loop started
  asked,      \* history: the queries each run has sent to the geocoding service
  exit,       \* history: how the execution that ended last ended
  lastItem,   \* history: what the latest loop iteration did
  lastWrite,  \* history: who last wrote the state document, and the lock holder then
  pass,       \* history: length of the latest built queue, completed runs since,
              \* and how often each of its positions was visited
  budget,     \* history: executions started, operator calls made, documents
              \* edited, exceptions thrown
  calc        \* the helper function under study: its input, and its result
              \* once it has been applied

vars == <<src, disk, artifacts, logSheet, triggers, lock, pc, mem, endIdx, logs,
          startPos, asked, exit, lastItem, lastWrite, pass, budget, calc>>

\* the last-updated time the documents start with; 0: Drive reports none
InitialMs(f) == f % (MaxMs + 1)

NoItem == [fileId |-> 0, kind |-> "none", differs |-> FALSE, extracted |-> FALSE,
           geocodeCalls |-> 0, cleaned |-> 0, wrote |-> 0, marked |-> FALSE,
           cause |-> "none", repeatCalls |-> 0, stops |-> <<>>]

\* the history of a freshly built queue of n items: no run has ended, no
\* position has been visited
NewPass(n) == [len |-> n, runs |-> 0, visits |-> [p \in 1..n |-> 0]]

\* the loop body is entered for the queue position after the cursor
Visit(p, state) ==
  IF state.pos + 1 \in DOMAIN p.visits THEN [p EXCEPT !.visits[state.pos + 1] = @ + 1] ELSE p

\* the pipeline before its first run, with documents 1..n in the window
PipelineInit(n) ==
  /\ src = [f \in 1..n |-> InitialMs(f)]
  /\ disk = [exists |-> FALSE, parses |-> FALSE, doc |-> EmptyState]
  /\ artifacts = <<>>
  /\ logSheet = 0
  /\ triggers = [cont |-> 0, recurring |-> FALSE]
  /\ lock = NoOne
  /\ pc = [i \in Invocations |-> "idle"]
  /\ mem = [i \in Invocations |-> EmptyState]
  /\ endIdx = [i \in Invocations |-> 0]
  /\ logs = [i \in Invocations |-> {}]
  /\ startPos = [i \in Invocations |-> 0]
  /\ asked = [i \in Invocations |-> {}]
  /\ exit = "none"
  /\ lastItem = NoItem
  /\ lastWrite = [by |-> "none", holder |-> NoOne]
  /\ pass = NewPass(0)
  /\ budget = [invoked |-> 0, operator |-> 0, touched |-> 0, faults |-> 0]

\* no helper function is under study
Init == calc = [fn |-> "none"] /\ \E n \in 0..MaxFiles : PipelineInit(n)

\* the variables of the pipeline
pipeline == <<src, disk, artifacts, logSheet, triggers, lock, pc, mem, endIdx, logs,
              startPos, asked, exit, lastItem, lastWrite, pass, budget>>


(* ---------------- the sync entrypoint, step by step ---------------- *)
Idle(i) ==
  /\ mem' = [mem EXCEPT ![i] = EmptyState]
  /\ endIdx' = [endIdx EXCEPT ![i] = 0]
  /\ logs' = [logs EXCEPT ![i] = {}]
  /\ startPos' = [startPos EXCEPT ![i] = 0]
  /\ asked' = [asked EXCEPT ![i] = {}]

\* an execution of syncRoutesUnifiedV4 starts; executions are told apart by
\* the slot they take, the first free one
Start(i) ==
  /\ pc[i] = "idle"
  /\ i = "a" \/ pc["a"] # "idle"
  /\ budget.invoked < MaxInvokes
  /\ budget' = [budget EXCEPT !.invoked = @ + 1]
  /\ pc' = [pc EXCEPT ![i] = "try"]
  /\ UNCHANGED exit

\* run from the editor by the operator
InvokeManual(i) ==
  /\ Start(i)
  /\ UNCHANGED <<src, disk, artifacts, logSheet, triggers, lock, mem, endIdx, logs,
                 startPos, asked, lastItem, lastWrite, pass, calc>>

\* fired by the operator's recurring time-driven trigger
InvokeRecurring(i) ==
  /\ triggers.recurring
  /\ Start(i)
  /\ UNCHANGED <<src, disk, artifacts, logSheet, triggers, lock, mem, endIdx, logs,
                 startPos, asked, lastItem, lastWrite, pass, calc>>

\* fired by the one-off continuation trigger, 60 s after the run that created
\* it (that run has saved and released by then)
InvokeContinuation(i) ==
  /\ triggers.cont > 0
  /\ lock = NoOne
  /\ Start(i)
  /\ triggers' = [triggers EXCEPT !.cont = @ - 1]
  /\ UNCHANGED <<src, disk, artifacts, logSheet, lock, mem, endIdx, logs,
                 startPos, asked, lastItem, lastWrite, pass, calc>>

\* a tryLock that does not look at the holder
LockAlwaysAvailable == TRUE

\* lock.tryLock(5000)
LockAvailable == lock = NoOne

TryLockOk(i) ==
  /\ pc[i] = "try"
  /\ LockAvailable
  /\ lock' = i
  /\ pc' = [pc EXCEPT ![i] = "locked"]
  /\ UNCHANGED <<src, disk, artifacts, logSheet, triggers, mem, endIdx, logs,
                 startPos, asked, exit, lastItem, lastWrite, pass, budget, calc>>

\* a skip that writes its message to the Logs sheet instead of Logger
SkipEffectsLogged(i) ==
  /\ logSheet' = logSheet + 1
  /\ UNCHANGED <<src, disk, artifacts, triggers, lock, mem, endIdx, logs,
                 startPos, asked, lastItem, lastWrite, pass, budget, calc>>

\* the lock stayed held for the whole timeout: Logger.log and return
SkipEffects(i) ==
  UNCHANGED <<src, disk, artifacts, logSheet, triggers, lock, mem, endIdx, logs,
              startPos, asked, lastItem, lastWrite, pass, budget, calc>>

TryLockFail(i) ==
  /\ pc[i] = "try"
  /\ ~LockAvailable
  /\ pc' = [pc EXCEPT ![i] = "idle"]
  /\ exit' = "skipped"
  /\ SkipEffects(i)

\* an exception that leaves the entrypoint without passing through finally
OnExceptionNoFinally(i) ==
  /\ pc' = [pc EXCEPT ![i] = "idle"]
  /\ exit' = "exception"

\* a service call throws
Throws ==
  /\ budget.faults < MaxFaults
  /\ budget' = [budget EXCEPT !.faults = @ + 1]

\* an exception inside try { ... } leaves through finally { lock.releaseLock() }
OnException(i) ==
  /\ pc' = [pc EXCEPT ![i] = "finally"]
  /\ exit' = "exception"

\* an `end` that is not clamped to the queue length
BatchEndUnclamped(state) == state.pos + BATCH_SIZE_V4

BatchEnd(state) == Min(state.pos + BATCH_SIZE_V4, Len(state.queue))

\* loadStateV4_, the rebuild when the queue is used up, the output folders, `end`
LoadAndPrepare(i) ==
  /\ pc[i] = "locked"
  /\ LET loaded == loadStateV4_(disk)
         rebuilt == NeedsRebuild(loaded)
         state == IF rebuilt THEN rebuildQueueV4_(loaded, src) ELSE loaded
     IN /\ mem' = [mem EXCEPT ![i] = state]
        /\ endIdx' = [endIdx EXCEPT ![i] = BatchEnd(state)]
        /\ startPos' = [startPos EXCEPT ![i] = state.pos]
        /\ asked' = [asked EXCEPT ![i] = {}]
        /\ pass' = IF rebuilt THEN NewPass(Len(state.queue)) ELSE pass
  /\ logs' = [logs EXCEPT ![i] = {}]
  /\ pc' = [pc EXCEPT ![i] = "batch"]
  /\ UNCHANGED <<src, disk, artifacts, logSheet, triggers, lock, exit, lastItem, lastWrite, budget, calc>>

\* a rebuild that stores the emptied state before it fails
RebuildThrowsAfterSave(i) ==
  /\ Throws
  /\ pc[i] = "locked"
  /\ NeedsRebuild(loadStateV4_(disk))
  /\ pc' = [pc EXCEPT ![i] = "finally"]
  /\ exit' = "missing_source"
  /\ disk' = saveStateV4_(EmptyState)
  /\ UNCHANGED <<src, artifacts, logSheet, triggers, lock, mem, endIdx, logs,
                 startPos, asked, lastItem, lastWrite, pass, calc>>

\* rebuildQueueV4_ throws: RegEd or SpecEd is missing under the Routes root;
\* the exception leaves the entrypoint through finally
RebuildThrows(i) ==
  /\ Throws
  /\ pc[i] = "locked"
  /\ NeedsRebuild(loadStateV4_(disk))
  /\ pc' = [pc EXCEPT ![i] = "finally"]
  /\ exit' = "missing_source"
  /\ UNCHANGED <<src, disk, artifacts, logSheet, triggers, lock, mem, endIdx, logs,
                 startPos, asked, lastItem, lastWrite, pass, calc>>

\* DriveApp.getFolderById(OUTPUT_ROOT_FOLDER_ID_V4) / getOrCreateSubfolderV4_ throws
OutputRootThrows(i) ==
  /\ Throws
  /\ pc[i] = "locked"
  /\ OnException(i)
  /\ UNCHANGED <<src, disk, artifacts, logSheet, triggers, lock, mem, endIdx, logs,
                 startPos, asked, lastItem, lastWrite, pass, calc>>

(* ---- one iteration of the batch loop: for (; state.pos < end; state.pos++) ---- *)
InLoop(i) == pc[i] = "batch" /\ mem[i].pos < endIdx[i]
ItemMissing(state) == state.pos + 1 > Len(state.queue)
CurrentItem(state) == state.queue[state.pos + 1]

AdvanceCursor(state) == [state EXCEPT !.pos = @ + 1]

\* a mark that replaces the processed map by the one entry
MarkProcessedAlone(state, item) ==
  [state EXCEPT !.processed = (item.fileId :> Fingerprint(item))]

\* state.processed[item.fileId] = String(item.updatedMs || 0)
MarkProcessed(state, item) ==
  [state EXCEPT !.processed = (item.fileId :> Fingerprint(item)) @@ @]

\* the fingerprint of the item differs from the recorded one (or none is recorded)
FingerprintDiffers(processed, item) ==
  item.fileId \notin DOMAIN processed \/ processed[item.fileId] # Fingerprint(item)

\* `continue`: the slot holds no item, or the item is unchanged ([SKIP])
SkipItem(i) ==
  /\ InLoop(i)
  /\ IF ItemMissing(mem[i])
     THEN /\ logs' = logs
          /\ lastItem' = [NoItem EXCEPT !.kind = "hole"]
     ELSE LET item == CurrentItem(mem[i]) IN
          /\ UnchangedItem(mem[i].processed, item)
          /\ logs' = [logs EXCEPT ![i] = @ \cup {"SKIP"}]
          /\ lastItem' = [NoItem EXCEPT !.fileId = item.fileId, !.kind = "skip",
                            !.differs = FingerprintDiffers(mem[i].processed, item)]
  /\ mem' = [mem EXCEPT ![i] = AdvanceCursor(@)]
  /\ pass' = Visit(pass, mem[i])
  /\ UNCHANGED <<src, disk, artifacts, logSheet, triggers, lock, pc, endIdx,
                 startPos, asked, exit, lastWrite, budget, calc>>

Extractable(i) ==
  /\ InLoop(i)
  /\ ~ItemMissing(mem[i])
  /\ ~UnchangedItem(mem[i].processed, CurrentItem(mem[i]))

\* an extraction error that is not caught at the item boundary
ExtractThrowsUncaught(i) ==
  /\ Throws
  /\ Extractable(i)
  /\ lastItem' = [NoItem EXCEPT !.fileId = CurrentItem(mem[i]).fileId, !.kind = "error",
                    !.extracted = TRUE]
  /\ OnException(i)
  /\ UNCHANGED <<src, disk, artifacts, logSheet, triggers, lock, mem, endIdx, logs,
                 startPos, asked, lastWrite, pass, calc>>

\* what makes an extraction throw: a service failure (Docs.Documents.get or
\* the OCR copy after its retries, the generative service answering non-200
\* or with an unparsable body) and, for a PDF with OCR text, the script
\* property GEMINI_API_KEY being unset
ExtractFailures(item) ==
  IF item.routeType = "SPECED_PDF" THEN {"service", "no_key"} ELSE {"service"}

\* the extraction throws: caught at the item boundary, [ERROR]
ExtractThrows(i) ==
  /\ Throws
  /\ Extractable(i)
  /\ LET item == CurrentItem(mem[i]) IN
     \E cause \in ExtractFailures(item) :
       lastItem' = [NoItem EXCEPT !.fileId = item.fileId, !.kind = "error",
                      !.differs = FingerprintDiffers(mem[i].processed, item),
                      !.extracted = TRUE,
                      !.cause = cause]
  /\ logs' = [logs EXCEPT ![i] = @ \cup {"ERROR"}]
  /\ mem' = [mem EXCEPT ![i] = AdvanceCursor(@)]
  /\ pass' = Visit(pass, mem[i])
  /\ UNCHANGED <<src, disk, artifacts, logSheet, triggers, lock, pc, endIdx,
                 startPos, asked, exit, lastWrite, calc>>

\* publishRoutesV4_ returns early with a [WARN]: no routes extracted (no red
\* stop line, empty OCR text, empty or malformed generative response) or no
\* route with a stop left after cleanup; the caller then records the item as
\* processed
NothingToPublish(i) ==
  /\ Extractable(i)
  /\ LET item == CurrentItem(mem[i]) IN
     /\ lastItem' = [NoItem EXCEPT !.fileId = item.fileId, !.kind = "warn",
                       !.differs = FingerprintDiffers(mem[i].processed, item),
                       !.extracted = TRUE,
                       !.marked = TRUE]
     /\ mem' = [mem EXCEPT ![i] = AdvanceCursor(MarkProcessed(@, item))]
  /\ logs' = [logs EXCEPT ![i] = @ \cup {"WARN"}]
  /\ pass' = Visit(pass, mem[i])
  /\ UNCHANGED <<src, disk, artifacts, logSheet, triggers, lock, pc, endIdx,
                 startPos, asked, exit, lastWrite, budget, calc>>


\* publishRoutesV4_ with its cleaned routes: geocode every stop, then write
\* each route.  A throw (the geocoder after its retries, a Drive or Sheets
\* write) is caught at the item boundary; what was written before it stays.
PublishItem(i) ==
  /\ Extractable(i)
  /\ \E throws \in BOOLEAN, fault \in 0..(MaxRoutes * WritesPerRoute) :
       LET state == mem[i]
           item == CurrentItem(state)
           nr == RoutesOf(item.fileId)
           geo == geocodeStopsV4_(state.geocodeCache, StopLocs(item.fileId, nr), throws)
           cached == [state EXCEPT !.geocodeCache = geo.cache]
           wrote == IF geo.threw THEN 0 ELSE JsonWritten(nr, fault)
           ok == ~geo.threw /\ fault = 0
       IN /\ fault <= nr * WritesPerRoute
          /\ geo.threw => fault = 0
          /\ IF ok THEN budget' = budget ELSE Throws
          /\ asked' = [asked EXCEPT ![i] = @ \cup {geo.queries[k] : k \in 1..Len(geo.queries)}]
          /\ artifacts' = upsertJsonV4_(artifacts, item.fileId, wrote, item.updatedMs)
          /\ mem' = [mem EXCEPT ![i] =
                       AdvanceCursor(IF ok THEN MarkProcessed(cached, item) ELSE cached)]
          /\ logs' = [logs EXCEPT ![i] =
                        @ \cup (IF wrote > 0 THEN {"OK"} ELSE {})
                          \cup (IF ok THEN {} ELSE {"ERROR"})]
          /\ lastItem' = [fileId |-> item.fileId,
                          kind |-> IF ok THEN "ok" ELSE "error",
                          differs |-> FingerprintDiffers(state.processed, item),
                          extracted |-> TRUE,
                          geocodeCalls |-> geo.calls,
                          repeatCalls |-> RepeatCalls(asked[i], geo.queries),
                          stops |-> geo.stops,
                          cleaned |-> nr,
                          wrote |-> wrote,
                          marked |-> ok,
                          cause |-> IF ok THEN "none" ELSE "service"]
  /\ pass' = Visit(pass, mem[i])
  /\ UNCHANGED <<src, disk, logSheet, triggers, lock, pc, endIdx,
                 startPos, exit, lastWrite, calc>>

(* ---- after the loop: appendLogsV4_, schedule or complete, saveStateV4_ ---- *)
LoopDone(i) == pc[i] = "batch" /\ ~(mem[i].pos < endIdx[i])

\* appendLogsV4_ returns at once when there are no lines
appendLogsV4_(sheet, lines) == IF lines = {} THEN sheet ELSE sheet + 1

MoreToDo(state) == state.pos < Len(state.queue)

\* a completion that keeps the used-up queue and cursor
FinishedKeepsQueue(state) == state

\* a completion that empties the queue and keeps the cursor
FinishedKeepsPos(state) == IF MoreToDo(state) THEN state ELSE [state EXCEPT !.queue = <<>>]

\* the state object after the if/else of lines 81-88
Finished(state) == IF MoreToDo(state) THEN state ELSE [state EXCEPT !.queue = <<>>, !.pos = 0]

\* the triggers after the if/else of lines 81-88
TriggersAfter(state, t) == IF MoreToDo(state) THEN scheduleNextV4_(t) ELSE removeTriggersV4_(t)

PostBatch(i) ==
  /\ LoopDone(i)
  /\ logSheet' = appendLogsV4_(logSheet, logs[i])
  /\ triggers' = TriggersAfter(mem[i], triggers)
  /\ mem' = [mem EXCEPT ![i] = Finished(@)]
  /\ disk' = saveStateV4_(Finished(mem[i]))
  /\ lastWrite' = [by |-> i, holder |-> lock]
  /\ pass' = [pass EXCEPT !.runs = @ + 1]
  /\ exit' = IF MoreToDo(mem[i]) THEN "continued" ELSE "complete"
  /\ pc' = [pc EXCEPT ![i] = "finally"]
  /\ UNCHANGED <<src, artifacts, lock, endIdx, logs, startPos, asked, lastItem, budget, calc>>

\* appendLogsV4_ throws (the Logs spreadsheet cannot be opened or written)
AppendLogsThrows(i) ==
  /\ Throws
  /\ LoopDone(i)
  /\ logs[i] # {}
  /\ OnException(i)
  /\ UNCHANGED <<src, disk, artifacts, logSheet, triggers, lock, mem, endIdx, logs,
                 startPos, asked, lastItem, lastWrite, pass, calc>>

\* ScriptApp throws while creating the continuation trigger, after the old
\* triggers were removed
ScheduleThrows(i) ==
  /\ Throws
  /\ LoopDone(i)
  /\ MoreToDo(mem[i])
  /\ logSheet' = appendLogsV4_(logSheet, logs[i])
  /\ triggers' = removeTriggersV4_(triggers)
  /\ OnException(i)
  /\ UNCHANGED <<src, disk, artifacts, lock, mem, endIdx, logs,
                 startPos, asked, lastItem, lastWrite, pass, calc>>

\* saveStateV4_ throws: the logs and triggers are done, the document is not written
SaveThrows(i) ==
  /\ Throws
  /\ LoopDone(i)
  /\ logSheet' = appendLogsV4_(logSheet, logs[i])
  /\ triggers' = TriggersAfter(mem[i], triggers)
  /\ mem' = [mem EXCEPT ![i] = Finished(@)]
  /\ OnException(i)
  /\ UNCHANGED <<src, disk, artifacts, lock, endIdx, logs,
                 startPos, asked, lastItem, lastWrite, pass, calc>>

\* finally { lock.releaseLock(); } and the execution ends
Release(i) ==
  /\ pc[i] = "finally"
  /\ lock' = IF lock = i THEN NoOne ELSE lock
  /\ pc' = [pc EXCEPT ![i] = "idle"]
  /\ Idle(i)
  /\ lastItem' = NoItem
  /\ UNCHANGED <<src, disk, artifacts, logSheet, triggers, exit, lastWrite, pass, budget, calc>>

(* ---------------- the operator's entrypoints ---------------- *)
OperatorCall ==
  /\ budget.operator < MaxOperatorCalls
  /\ budget' = [budget EXCEPT !.operator = @ + 1]

\* rebuildQueueOnlyV4: load, rebuild, save; takes no lock
RebuildQueueOnly ==
  /\ OperatorCall
  /\ LET state == rebuildQueueV4_(loadStateV4_(disk), src) IN
     /\ disk' = saveStateV4_(state)
     /\ pass' = NewPass(Len(state.queue))
  /\ lastWrite' = [by |-> "rebuildQueueOnlyV4", holder |-> lock]
  /\ UNCHANGED <<src, artifacts, logSheet, triggers, lock, pc, mem, endIdx, logs,
                 startPos, asked, exit, lastItem, calc>>

\* resetRouteSyncUnifiedV4: remove the triggers, save the empty state; takes no lock
ResetRouteSync ==
  /\ OperatorCall
  /\ triggers' = removeTriggersV4_(triggers)
  /\ disk' = saveStateV4_(EmptyState)
  /\ lastWrite' = [by |-> "resetRouteSyncUnifiedV4", holder |-> lock]
  /\ UNCHANGED <<src, artifacts, logSheet, lock, pc, mem, endIdx, logs,
                 startPos, asked, exit, lastItem, pass, calc>>

\* the operator schedules the entrypoint every 10-15 minutes
InstallRecurring ==
  /\ OperatorCall
  /\ ~triggers.recurring
  /\ triggers' = [triggers EXCEPT !.recurring = TRUE]
  /\ UNCHANGED <<src, disk, artifacts, logSheet, lock, pc, mem, endIdx, logs,
                 startPos, asked, exit, lastItem, lastWrite, pass, calc>>

(* ---------------- the environment ---------------- *)
\* a source document is edited: its last-updated time moves on.  The sources
\* are read only by the queue rebuild, so an edit made while an execution is
\* under way has the effect of the same edit made right after it.
Touch(f) ==
  /\ f \in DOMAIN src
  /\ \A i \in Invocations : pc[i] = "idle"
  /\ src[f] < MaxMs
  /\ budget.touched < MaxTouches
  /\ budget' = [budget EXCEPT !.touched = @ + 1]
  /\ src' = [src EXCEPT ![f] = @ + 1]
  /\ UNCHANGED <<disk, artifacts, logSheet, triggers, lock, pc, mem, endIdx, logs,
                 startPos, asked, exit, lastItem, lastWrite, pass, calc>>

(* ---------------- JavaScript strings ---------------- *)
\* a text is the tuple of its characters
LowerLetters == <<"a", "b", "c", "d", "e", "f", "g", "h", "i", "j", "k", "l", "m",
                  "n", "o", "p", "q", "r", "s", "t", "u", "v", "w", "x", "y", "z">>
UpperLetters == <<"A", "B", "C", "D", "E", "F", "G", "H", "I", "J", "K", "L", "M",
                  "N", "O", "P", "Q", "R", "S", "T", "U", "V", "W", "X", "Y", "Z">>
DigitChars == <<"0", "1", "2", "3", "4", "5", "6", "7", "8", "9">>

\* \d
DigitSet == {DigitChars[k] : k \in 1..Len(DigitChars)}
IsDigit(c) == c \in DigitSet
\* \s
Spaces == {" ", "\n", "\t"}
IsSpace(c) == c \in Spaces
\* \w
IsWordChar(c) ==
  \/ \E k \in 1..Len(LowerLetters) : LowerLetters[k] = c \/ UpperLetters[k] = c
  \/ IsDigit(c) \/ c = "_"

toUpperCase(s) ==
  [k \in 1..Len(s) |->
     IF \E n \in 1..Len(LowerLetters) : LowerLetters[n] = s[k]
     THEN UpperLetters[CHOOSE n \in 1..Len(LowerLetters) : LowerLetters[n] = s[k]]
     ELSE s[k]]
toLowerCase(s) ==
  [k \in 1..Len(s) |->
     IF \E n \in 1..Len(UpperLetters) : UpperLetters[n] = s[k]
     THEN LowerLetters[CHOOSE n \in 1..Len(UpperLetters) : UpperLetters[n] = s[k]]
     ELSE s[k]]

\* parseInt(s, 10) of a run of digits
RECURSIVE parseInt(_)
parseInt(s) ==
  IF s = <<>> THEN 0
  ELSE 10 * parseInt(SubSeq(s, 1, Len(s) - 1))
       + (CHOOSE k \in 1..Len(DigitChars) : DigitChars[k] = s[Len(s)]) - 1

\* the length of the run of characters of a class that starts at s[p]
RECURSIVE RunLength(_, _, _)
RunLength(s, p, class) ==
  IF p <= Len(s) /\ s[p] \in class THEN 1 + RunLength(s, p + 1, class) ELSE 0

\* s.trim()
\* a text taken as it is, whitespace around it included
trimNothing(s) == s

\* s.trim()
trim(s) ==
  LET from == 1 + RunLength(s, 1, Spaces)
      last == {k \in from..Len(s) : ~IsSpace(s[k])}
  IN IF last = {} THEN <<>>
     ELSE SubSeq(s, from, CHOOSE k \in last : \A j \in last : j <= k)

\* s.replace(/\s+/g, ' '): every run of whitespace becomes one space
RECURSIVE CollapseSpaces(_)
CollapseSpaces(s) ==
  IF s = <<>> THEN <<>>
  ELSE IF IsSpace(Head(s))
       THEN <<" ">> \o CollapseSpaces(SubSeq(s, 1 + RunLength(s, 1, Spaces), Len(s)))
       ELSE <<Head(s)>> \o CollapseSpaces(Tail(s))

normalizeWsV4_(s) == trim(CollapseSpaces(s))

\* normalizeWsV4_(s).replace(/^[-:,\s]+/, '').replace(/\s+[-:,\s]+$/, ''): the
\* second pattern matches from the leftmost whitespace after which only edge
\* characters, and at least one, follow to the end
cleanLocationV4_(s) ==
  LET edge == {"-", ":", ","} \cup Spaces
      w == normalizeWsV4_(s)
      lead == SubSeq(w, 1 + RunLength(w, 1, edge), Len(w))
      starts == {p \in 1..(Len(lead) - 1) :
                   IsSpace(lead[p]) /\ \A q \in (p + 1)..Len(lead) : lead[q] \in edge}
  IN IF starts = {} THEN lead
     ELSE SubSeq(lead, 1, (CHOOSE p \in starts : \A q \in starts : p <= q) - 1)

\* the matches of /^(\d{1,2})(?::(\d{2}))?\s*(AM|PM)?$/ on s: hour digits, minute
\* digits or none, AM/PM or none (there is at most one)
TimeMatches(s) ==
  {m \in [h : {SubSeq(s, 1, n) : n \in {k \in 1..2 : k <= Len(s)}}, hasMin : BOOLEAN,
          ap : {<<>>, <<"A", "M">>, <<"P", "M">>}] :
     LET afterH == Len(m.h)
         afterM == IF m.hasMin THEN afterH + 3 ELSE afterH
         tailAt == Len(s) - Len(m.ap)
     IN /\ Len(m.h) \in 1..2 /\ Len(m.h) <= Len(s)
        /\ \A k \in 1..Len(m.h) : IsDigit(m.h[k])
        /\ tailAt >= afterM
        /\ m.hasMin => /\ s[afterH + 1] = ":"
                       /\ IsDigit(s[afterH + 2]) /\ IsDigit(s[afterH + 3])
        /\ \A k \in (afterM + 1)..tailAt : IsSpace(s[k])
        /\ SubSeq(s, tailAt + 1, Len(s)) = m.ap}

MinuteDigits(s, m) == IF m.hasMin THEN SubSeq(s, Len(m.h) + 2, Len(m.h) + 3) ELSE <<>>

normalizeTimeV4_(t) ==
  LET s == toUpperCase(normalizeWsV4_(t)) IN
  IF s = <<>> THEN <<>>
  ELSE IF TimeMatches(s) = {} THEN s
  ELSE LET m == CHOOSE x \in TimeMatches(s) : TRUE
           mm == IF m.hasMin THEN MinuteDigits(s, m) ELSE <<"0", "0">>
       IN trim(m.h \o <<":">> \o mm \o (IF m.ap = <<>> THEN <<>> ELSE <<" ">> \o m.ap))

\* parseTimeMinsV4_: minutes past midnight, or NoTime for null
NoTime == -1
parseTimeMinsV4_(t) ==
  LET s == toUpperCase(trim(t)) IN
  IF TimeMatches(s) = {} THEN NoTime
  ELSE LET m == CHOOSE x \in TimeMatches(s) : TRUE
           h0 == parseInt(m.h)
           min == parseInt(MinuteDigits(s, m))
           h == IF m.ap = <<"P", "M">> /\ h0 < 12 THEN h0 + 12
                ELSE IF m.ap = <<"A", "M">> /\ h0 = 12 THEN 0 ELSE h0
       IN h * 60 + min

(* ---------------- cleaning the routes of one item ---------------- *)
MaxStops == 2

normalizeBusV4_(v) ==
  LET d == SelectSeq(v, IsDigit) IN
  IF d = <<>> THEN <<>>
  ELSE IF Len(d) = 1 THEN <<"0", "0">> \o d
  ELSE IF Len(d) = 2 THEN <<"0">> \o d
  ELSE d

\* a || b for texts: the empty text is falsy
OrElse(a, b) == IF a # <<>> THEN a ELSE b

\* /^(LEFT|RIGHT|TURN|PROCEED|CONTINUE)\b/i
IsManeuver(loc) ==
  \E w \in {<<"L", "E", "F", "T">>, <<"R", "I", "G", "H", "T">>, <<"T", "U", "R", "N">>,
            <<"P", "R", "O", "C", "E", "E", "D">>,
            <<"C", "O", "N", "T", "I", "N", "U", "E">>} :
    /\ Len(loc) >= Len(w) /\ SubSeq(toUpperCase(loc), 1, Len(w)) = w
    /\ Len(loc) = Len(w) \/ ~IsWordChar(loc[Len(w) + 1])

\* the property name under which the dedupe object remembers a stop
DedupeKey(time, loc) == toLowerCase(time \o <<"|">> \o loc)

\* one pass of the loop of cleanRouteV4_ over arr[k..], with the keys seen so far
RECURSIVE CleanStops(_, _, _, _)
CleanStops(arr, k, school, seen) ==
  IF k > Len(arr) THEN <<>>
  ELSE LET s == arr[k]
           loc == cleanLocationV4_(s.location)
           time == normalizeTimeV4_(s.time)
           key == DedupeKey(time, loc)
       IN IF \/ loc = <<>>
             \/ toLowerCase(loc) = toLowerCase(school)
             \/ IsManeuver(loc)
             \/ key \in seen
          THEN CleanStops(arr, k + 1, school, seen)
          ELSE <<[time |-> time, location |-> loc, students |-> s.students]>>
               \o CleanStops(arr, k + 1, school, seen \cup {key})

cleanRouteV4_(route, fallbackSchool, fallbackBus) ==
  LET school == OrElse(trim(OrElse(route.schoolName, fallbackSchool)),
                       <<"U", "n", "k", "n", "o", "w", "n", " ", "R", "o", "u", "t", "e">>)
      bus == OrElse(normalizeBusV4_(OrElse(route.busNumber, fallbackBus)), <<"N", "-", "A">>)
  IN [busNumber |-> bus, schoolName |-> school,
      stops |-> CleanStops(route.stops, 1, school, {})]

\* routes.map(cleanRouteV4_)
MapClean(routes, fallbackSchool, fallbackBus) ==
  [k \in 1..Len(routes) |-> cleanRouteV4_(routes[k], fallbackSchool, fallbackBus)]

\* the same pipeline without the filter on stops.length
CleanedOfUnfiltered(routes, fallbackSchool, fallbackBus) ==
  MapClean(routes, fallbackSchool, fallbackBus)

\* routes.map(cleanRouteV4_).filter(r => r.stops.length)
CleanedOf(routes, fallbackSchool, fallbackBus) ==
  SelectSeq(MapClean(routes, fallbackSchool, fallbackBus), LAMBDA r : r.stops # <<>>)

RECURSIVE SeqsUpTo(_, _)
SeqsUpTo(S, n) ==
  IF n = 0 THEN {<<>>}
  ELSE LET shorter == SeqsUpTo(S, n - 1)
       IN shorter \cup {Append(q, x) : q \in {p \in shorter : Len(p) = n - 1}, x \in S}

HintSchool == <<"G", "U", "I", "L", "F", "O", "R", "D", " ", "P", "A", "R", "K">>
HintBus == <<"2", "1">>

\* raw stops as an extraction may return them, in routes of up to MaxStops stops,
\* and what else the same extraction may hold after its first route
CleanInit ==
  /\ LET RawStops ==
           {[time |-> <<"6", ":", "4", "2", " ", "A", "M">>, location |-> <<"1", "2", "3", " ", "M", "a", "i", "n", " ", "S", "t">>, students |-> 1],
            [time |-> <<"6", ":", "4", "2", " ", "a", "m">>, location |-> <<" ", "-", " ", "1", "2", "3", " ", " ", "M", "A", "I", "N", " ", "S", "T">>, students |-> 2],
            [time |-> <<"6", ":", "5", "0">>, location |-> <<"1", "2", "3", " ", "M", "a", "i", "n", " ", "S", "t">>, students |-> 1],
            [time |-> <<"7", ":", "0", "0", "|", "A">>, location |-> <<"B">>, students |-> 1],
            [time |-> <<"7", ":", "0", "0">>, location |-> <<"A", "|", "B">>, students |-> 2],
            [time |-> <<"6", ":", "5", "5", " ", "A", "M">>, location |-> <<"L", "e", "f", "t", " ", "o", "n", " ", "E", "l", "m", " ", "S", "t">>, students |-> 0],
            [time |-> <<>>, location |-> <<"G", "u", "i", "l", "f", "o", "r", "d", " ", "P", "a", "r", "k">>, students |-> 0],
            [time |-> <<"7", ":", "0", "5", " ", "A", "M">>, location |-> <<" ", "-", " ">>, students |-> 1]}
         RawRoutes ==
           [schoolName : {<<>>}, busNumber : {<<>>}, stops : SeqsUpTo(RawStops, MaxStops)]
         MoreRoutes ==
           {<<>>,
            <<[schoolName |-> <<>>, busNumber |-> <<>>, stops |-> <<>>]>>,
            <<[schoolName |-> <<>>, busNumber |-> <<"1", "4", "5">>,
               stops |-> <<[time |-> <<"2", ":", "3", "0", " ", "P", "M">>, location |-> <<"9", " ", "O", "a", "k", " ", "A", "v", "e">>, students |-> 1]>>]>>}
     IN \E routes \in {<<>>} \cup {<<r>> \o more : r \in RawRoutes, more \in MoreRoutes} :
          calc = [fn |-> "clean", routes |-> routes, done |-> FALSE,
                     mapped |-> <<>>, cleaned |-> <<>>, written |-> <<>>, warned |-> FALSE]
  /\ PipelineInit(0)

\* publishRoutesV4_ up to the artifacts it hands to the writer
CleanAndFilter ==
  /\ calc.fn = "clean" /\ ~calc.done
  /\ LET cleaned == IF calc.routes = <<>> THEN <<>>
                    ELSE CleanedOf(calc.routes, HintSchool, HintBus)
     IN calc' = [calc EXCEPT !.done = TRUE,
                             !.mapped = MapClean(calc.routes, HintSchool, HintBus),
                             !.cleaned = cleaned,
                             !.written = cleaned, !.warned = (cleaned = <<>>)]
  /\ UNCHANGED pipeline

(* ---------------- the period of a route ---------------- *)
MaxTimes == 2

\* /\bword\b/.test(text) for a word made of word characters
HasWord(text, word) ==
  \E p \in 1..(Len(text) - Len(word) + 1) :
    /\ SubSeq(text, p, p + Len(word) - 1) = word
    /\ p = 1 \/ ~IsWordChar(text[p - 1])
    /\ p + Len(word) - 1 = Len(text) \/ ~IsWordChar(text[p + Len(word)])

\* /\bMID[-\s]?DAY\b/.test(text)
HasMidDay(text) ==
  \/ HasWord(text, <<"M", "I", "D", "D", "A", "Y">>)
  \/ HasWord(text, <<"M", "I", "D", "-", "D", "A", "Y">>)
  \/ \E sp \in Spaces : HasWord(text, <<"M", "I", "D">> \o <<sp>> \o <<"D", "A", "Y">>)

\* the loop of lines 626-630 from stop k on: the least parseable time, or NoTime
RECURSIVE BestTime(_, _, _)
BestTime(stops, k, best) ==
  IF k > Len(stops) THEN best
  ELSE LET t == parseTimeMinsV4_(stops[k].time)
       IN IF t = NoTime THEN BestTime(stops, k + 1, best)
          ELSE IF best = NoTime \/ t < best THEN BestTime(stops, k + 1, t)
          ELSE BestTime(stops, k + 1, best)

\* a loop that keeps the first parseable time
RECURSIVE FirstTime(_, _, _)
FirstTime(stops, k, best) ==
  IF k > Len(stops) THEN best
  ELSE LET t == parseTimeMinsV4_(stops[k].time)
       IN IF t = NoTime THEN FirstTime(stops, k + 1, best) ELSE t

PeriodFrom(best, schoolName) ==
  LET up == toUpperCase(schoolName) IN
  IF best # NoTime /\ best >= 360 /\ best <= 570 THEN "AM"
  ELSE IF best # NoTime /\ best > 570 /\ best < 840 THEN "Mid-day"
  ELSE IF best # NoTime /\ best >= 840 /\ best <= 1080 THEN "PM"
  ELSE IF HasWord(up, <<"A", "M">>) THEN "AM"
  ELSE IF HasWord(up, <<"P", "M">>) THEN "PM"
  ELSE IF HasMidDay(up) THEN "Mid-day"
  ELSE "Route"

canonicalPeriodByFirstTime(stops, schoolName) == PeriodFrom(FirstTime(stops, 1, NoTime), schoolName)

canonicalPeriodV4_(stops, schoolName) == PeriodFrom(BestTime(stops, 1, NoTime), schoolName)

\* stop times as they may be written, and school names
PeriodInit ==
  /\ LET TimeTexts ==
           {<<"6", ":", "4", "2", " ", "A", "M">>, <<"4", ":", "1", "5", " ", "P", "M">>, <<"5", ":", "5", "9", " ", "A", "M">>, <<"6", ":", "0", "0", " ", "a", "m">>, <<"9", ":", "3", "0", " ", "A", "M">>, <<"9", ":", "3", "1", " ", "A", "M">>, <<"1", "2", ":", "0", "0", " ", "P", "M">>,
            <<"1", ":", "5", "9", " ", "P", "M">>, <<"2", ":", "0", "0", " ", "P", "M">>, <<"6", ":", "0", "0", " ", "P", "M">>, <<"6", ":", "0", "1", " ", "P", "M">>, <<"1", "2", ":", "1", "5", " ", "A", "M">>, <<"7">>, <<" ", "8", ":", "0", "5", " ">>, <<"n", "o", "o", "n">>, <<>>}
         SchoolNames ==
           {<<"G", "U", "I", "L", "F", "O", "R", "D", " ", "P", "A", "R", "K">>, <<"G", "u", "i", "l", "f", "o", "r", "d", " ", "P", "a", "r", "k", " ", "P", "M">>, <<"M", "I", "D", "-", "D", "A", "Y", " ", "S", "H", "U", "T", "T", "L", "E">>, <<"A", "M", "B", "E", "R", " ", "R", "O", "A", "D">>}
     IN \E times \in SeqsUpTo(TimeTexts, MaxTimes), school \in SchoolNames :
          calc = [fn |-> "period", stops |-> [k \in 1..Len(times) |-> [time |-> times[k]]],
                  schoolName |-> school, done |-> FALSE, period |-> "none"]
  /\ PipelineInit(0)

Classify ==
  /\ calc.fn = "period" /\ ~calc.done
  /\ calc' = [calc EXCEPT !.done = TRUE,
                          !.period = canonicalPeriodV4_(calc.stops, calc.schoolName)]
  /\ UNCHANGED pipeline

(* ---------------- phone numbers of a student (route_sync_dual_v3, route_sync_v2) ---------------- *)
MaxPhones == 3

\* s.split('\n')
RECURSIVE SplitLines(_)
SplitLines(s) ==
  IF \A k \in 1..Len(s) : s[k] # "\n" THEN <<s>>
  ELSE LET at == CHOOSE k \in 1..Len(s) : s[k] = "\n" /\ \A j \in 1..(k - 1) : s[j] # "\n"
       IN <<SubSeq(s, 1, at - 1)>> \o SplitLines(SubSeq(s, at + 1, Len(s)))

\* lines.join('\n')
RECURSIVE JoinLines(_)
JoinLines(lines) ==
  IF lines = <<>> THEN <<>>
  ELSE IF Len(lines) = 1 THEN lines[1]
  ELSE lines[1] \o <<"\n">> \o JoinLines(Tail(lines))

\* the filter: empty results and results already seen are dropped
RECURSIVE UniqueNonEmpty(_, _)
UniqueNonEmpty(lines, seen) ==
  IF lines = <<>> THEN <<>>
  ELSE IF Head(lines) = <<>> \/ Head(lines) \in seen THEN UniqueNonEmpty(Tail(lines), seen)
  ELSE <<Head(lines)>> \o UniqueNonEmpty(Tail(lines), seen \cup {Head(lines)})

normalizePhonesV3_(raw) ==
  IF raw = <<>> THEN <<>>
  ELSE LET lines == SplitLines(raw)
           \* s.replace(/[^\dxX]/g, '')
           Stripped(t) == SelectSeq(t, LAMBDA c : IsDigit(c) \/ c \in {"x", "X"})
           \* s.length === 11 && s.charAt(0) === '1' ? s.slice(1) : s
           National(t) == IF Len(t) = 11 /\ t[1] = "1" THEN Tail(t) ELSE t
           \* s.length >= 10 ? s.slice(0, 3) + '-' + s.slice(3, 6) + '-' + s.slice(6, 10) : s
           Formatted(t) ==
             IF Len(t) >= 10
             THEN SubSeq(t, 1, 3) \o <<"-">> \o SubSeq(t, 4, 6) \o <<"-">> \o SubSeq(t, 7, 10)
             ELSE t
           shaped == [k \in 1..Len(lines) |-> Formatted(National(Stripped(lines[k])))]
       IN JoinLines(UniqueNonEmpty(shaped, {}))

\* numbers as a student record may hold them
PhonesInit ==
  /\ LET RawPhones ==
           {<<"1", "-", "4", "1", "0", "-", "5", "5", "5", "-", "0", "1", "0", "0">>, <<"(", "4", "1", "0", ")", " ", "5", "5", "5", "-", "0", "1", "0", "0">>, <<"5", "5", "5", "-", "0", "1", "0", "0">>, <<"4", "1", "0", "-", "5", "5", "5", "-", "0", "1", "9", "9", " ", "x", "1", "2">>,
            <<"+", "4", "4", " ", "2", "0", " ", "7", "9", "4", "6", " ", "0", "9", "5", "8">>, <<>>}
     IN \E numbers \in SeqsUpTo(RawPhones, MaxPhones) :
          calc = [fn |-> "phones", numbers |-> numbers, raw |-> JoinLines(numbers),
                  done |-> FALSE, out |-> <<>>]
  /\ PipelineInit(0)

NormalizePhones ==
  /\ calc.fn = "phones" /\ ~calc.done
  /\ calc' = [calc EXCEPT !.done = TRUE, !.out = normalizePhonesV3_(calc.raw)]
  /\ UNCHANGED pipeline

(* ---------------- names: bus hints, school names, artifact names ---------------- *)
stripExtV4_(name) ==
  LET dots == {k \in 1..Len(name) : name[k] = "."}
  IN IF dots = {} THEN name
     ELSE SubSeq(name, 1, (CHOOSE k \in dots : \A j \in dots : j <= k) - 1)

\* name.match(/\b(\d{1,4})\b/): the first run of one to four digits that stands
\* between two word boundaries
extractBusNumberV4_(name) ==
  LET starts == {p \in 1..Len(name) :
                   /\ IsDigit(name[p])
                   /\ p = 1 \/ ~IsWordChar(name[p - 1])
                   /\ RunLength(name, p, DigitSet) <= 4
                   /\ LET q == p + RunLength(name, p, DigitSet)
                      IN q > Len(name) \/ ~IsWordChar(name[q])}
  IN IF starts = {} THEN <<>>
     ELSE LET p == CHOOSE x \in starts : \A y \in starts : x <= y
          IN normalizeBusV4_(SubSeq(name, p, p + RunLength(name, p, DigitSet) - 1))

\* stripExtV4_(name).replace(/^\s*\d{1,4}\s+/, '').trim()
inferSchoolNameV4_(name) ==
  LET base == stripExtV4_(name)
      sp == RunLength(base, 1, Spaces)
      dg == RunLength(base, sp + 1, DigitSet)
      gap == RunLength(base, sp + dg + 1, Spaces)
  IN IF dg \in 1..4 /\ gap >= 1
     THEN trim(SubSeq(base, sp + dg + gap + 1, Len(base)))
     ELSE trim(base)

\* .replace(/\s*[-\u2013\u2014]\s*/g, ' '): hyphen, en dash, em dash
RECURSIVE DashesToSpaces(_)
DashesToSpaces(s) ==
  IF s = <<>> THEN <<>>
  ELSE LET sp == RunLength(s, 1, Spaces)
       IN IF sp < Len(s) /\ s[sp + 1] \in {"-", "en-dash", "em-dash"}
          THEN <<" ">> \o DashesToSpaces(SubSeq(s, sp + 2 + RunLength(s, sp + 2, Spaces), Len(s)))
          ELSE <<Head(s)>> \o DashesToSpaces(Tail(s))

\* a word boundary \b stands before s[p]
BoundaryBefore(s, p) ==
  LET left == p > 1 /\ IsWordChar(s[p - 1])
      right == p <= Len(s) /\ IsWordChar(s[p])
  IN left # right

\* where a match of /\b\(?\s*ROUTE\s*\)?/ that starts at s[p] ends (0: no match)
RouteMatchEnd(s, p) ==
  LET a == IF p <= Len(s) /\ s[p] = "(" THEN p + 1 ELSE p
      b == a + RunLength(s, a, Spaces)
      c == b + 5
      d == c + RunLength(s, c, Spaces)
  IN IF BoundaryBefore(s, p) /\ c - 1 <= Len(s) /\ SubSeq(s, b, c - 1) = <<"R", "O", "U", "T", "E">>
     THEN (IF d <= Len(s) /\ s[d] = ")" THEN d ELSE d - 1)
     ELSE 0

\* .replace(/\b\(?\s*ROUTE\s*\)?/i, ''): the first match goes
DropRouteWord(s) ==
  LET starts == {p \in 1..Len(s) : RouteMatchEnd(s, p) > 0}
  IN IF starts = {} THEN s
     ELSE LET p == CHOOSE x \in starts : \A y \in starts : x <= y
          IN SubSeq(s, 1, p - 1) \o SubSeq(s, RouteMatchEnd(s, p) + 1, Len(s))

\* .replace(/\s+\((AM|PM|MID-?DAY)\)$/i, '')
DropPeriodSuffix(s) ==
  LET cuts == {p \in 1..Len(s) :
                 /\ IsSpace(s[p])
                 /\ p = 1 \/ ~IsSpace(s[p - 1])
                 /\ SubSeq(s, p + RunLength(s, p, Spaces), Len(s)) \in
                      {<<"(", "A", "M", ")">>, <<"(", "P", "M", ")">>,
                       <<"(", "M", "I", "D", "D", "A", "Y", ")">>,
                       <<"(", "M", "I", "D", "-", "D", "A", "Y", ")">>}}
  IN IF cuts = {} THEN s ELSE SubSeq(s, 1, (CHOOSE p \in cuts : TRUE) - 1)

canonicalizeSchoolV4_(s) ==
  normalizeWsV4_(DropPeriodSuffix(DropRouteWord(DashesToSpaces(toUpperCase(s)))))

\* `${canonicalizeSchoolV4_(schoolName)} (${canonicalPeriodV4_(stops, schoolName)})`
canonicalRouteFileStemV4_(schoolName, stops) ==
  LET period == canonicalPeriodV4_(stops, schoolName)
      text == CASE period = "AM" -> <<"A", "M">>
                [] period = "PM" -> <<"P", "M">>
                [] period = "Mid-day" -> <<"M", "i", "d", "-", "d", "a", "y">>
                [] OTHER -> <<"R", "o", "u", "t", "e">>
  IN canonicalizeSchoolV4_(schoolName) \o <<" ", "(">> \o text \o <<")">>

(* ---------------- one scanned document, from the scan to its artifact ---------------- *)
\* the queue item that the scan of the SpecEd bus folders makes of a PDF
SpecEdItem(fileName, folderName, updatedMs) ==
  [routeType |-> "SPECED_PDF", fileId |-> 1, fileName |-> fileName, updatedMs |-> updatedMs,
   busNumberHint |-> OrElse(normalizeBusV4_(folderName), extractBusNumberV4_(fileName)),
   schoolNameHint |-> inferSchoolNameV4_(fileName)]

\* what extractSpecEdRoutesV4_ returns for the array the service answered
RoutesOfReply(parsed, fallbackSchool, fallbackBus) ==
  IF parsed = <<>>
  THEN <<[busNumber |-> fallbackBus, schoolName |-> fallbackSchool, stops |-> <<>>]>>
  ELSE parsed

\* the geocoder's answer put on every stop (all queries of the document get the
\* same answer, so a cached answer is that answer too)
WithCoordinates(route, geo) ==
  [route EXCEPT !.stops =
     [k \in 1..Len(route.stops) |->
        IF geo.found
        THEN [time |-> route.stops[k].time, location |-> route.stops[k].location,
              students |-> route.stops[k].students,
              latitude |-> geo.lat, longitude |-> geo.lng, geocodeError |-> FALSE]
        ELSE [time |-> route.stops[k].time, location |-> route.stops[k].location,
              students |-> route.stops[k].students,
              latitude |-> "none", longitude |-> "none", geocodeError |-> TRUE]]]

JsonArtifact(item, route) ==
  [meta |-> [sourceType |-> item.routeType, sourceFileId |-> item.fileId,
             sourceFileName |-> item.fileName, sourceUpdatedMs |-> item.updatedMs],
   busNumber |-> route.busNumber, schoolName |-> route.schoolName,
   period |-> canonicalPeriodV4_(route.stops, route.schoolName),
   stops |-> route.stops]

\* a writer that names the artifact after the school name as it came
WriteRouteUncanonical(drive, item, route) ==
  LET stem == route.schoolName
      json == [folder |-> route.busNumber, name |-> stem \o <<".", "j", "s", "o", "n">>, kind |-> "json",
               content |-> JsonArtifact(item, route)]
      sheet == [folder |-> route.busNumber, name |-> stem, kind |-> "sheet",
                content |-> route.stops]
      others == SelectSeq(drive, LAMBDA f : ~(f.folder = route.busNumber /\ f.name \in {json.name, stem}))
  IN others \o <<json, sheet>>

\* the bus folder's JSON file and its spreadsheet mirror, created or overwritten
WriteRoute(drive, item, route) ==
  LET stem == canonicalRouteFileStemV4_(route.schoolName, route.stops)
      json == [folder |-> route.busNumber, name |-> stem \o <<".", "j", "s", "o", "n">>, kind |-> "json",
               content |-> JsonArtifact(item, route)]
      sheet == [folder |-> route.busNumber, name |-> stem, kind |-> "sheet",
                content |-> route.stops]
      others == SelectSeq(drive, LAMBDA f : ~(f.folder = route.busNumber /\ f.name \in {json.name, stem}))
  IN others \o <<json, sheet>>

RECURSIVE WriteRoutes(_, _, _, _)
WriteRoutes(drive, item, routes, k) ==
  IF k > Len(routes) THEN drive
  ELSE WriteRoutes(WriteRoute(drive, item, routes[k]), item, routes, k + 1)

MainStop ==
  [time |-> <<"6", ":", "4", "2", " ", "A", "M">>,
   location |-> <<"1", "2", "3", " ", "M", "a", "i", "n", " ", "S", "t">>, students |-> 1]

\* file and folder names, arrays the generative service may answer for the
\* document, and answers of the geocoder
ScenarioInit ==
  /\ LET ManeuverStop ==
           [time |-> <<>>, students |-> 0,
            location |-> <<"L", "E", "F", "T", " ", "O", "N", " ", "M", "A", "I", "N", " ", "S", "T">>]
         GuilfordPark == <<"G", "u", "i", "l", "f", "o", "r", "d", " ", "P", "a", "r", "k">>
         Replies ==
           {<<>>,
            <<[busNumber |-> <<>>, schoolName |-> <<>>, stops |-> <<MainStop>>]>>,
            <<[busNumber |-> <<"2", "1">>, schoolName |-> GuilfordPark, stops |-> <<MainStop>>]>>,
            <<[busNumber |-> <<"2", "1">>, schoolName |-> GuilfordPark,
               stops |-> <<MainStop, ManeuverStop>>]>>,
            <<[busNumber |-> <<"1", "4", "5">>, stops |-> <<MainStop>>,
               schoolName |-> <<"A", "t", "h", "o", "l", "t", "o", "n", " ", "H", "S", " ", "-", " ", "R", "o", "u", "t", "e", " ", "(", "P", "M", ")">>]>>}
         FileNames ==
           {<<"0", "2", "1", " ", "G", "U", "I", "L", "F", "O", "R", "D", " ", "P", "A", "R", "K", ".", "p", "d", "f">>,
            <<"G", "U", "I", "L", "F", "O", "R", "D", " ", "P", "A", "R", "K", ".", "p", "d", "f">>,
            <<"7", " ", "A", "t", "h", "o", "l", "t", "o", "n", " ", "H", "S", ".", "p", "d", "f">>}
         FolderNames == {<<"2", "1">>, <<"B", "u", "s", " ", "7">>, <<"m", "i", "s", "c">>}
         GeocoderAnswers ==
           {[found |-> TRUE, lat |-> "39.12345", lng |-> "-76.54321"],
            [found |-> FALSE, lat |-> "none", lng |-> "none"]}
     IN \E fileName \in FileNames, folderName \in FolderNames, ms \in 0..MaxMs,
           reply \in Replies, geo \in GeocoderAnswers :
          calc = [fn |-> "scenario", phase |-> "scan",
                  fileName |-> fileName, folderName |-> folderName, updatedMs |-> ms,
                  reply |-> reply, geo |-> geo,
                  item |-> SpecEdItem(<<>>, <<>>, 0), routes |-> <<>>,
                  drive |-> <<>>, processed |-> <<>>, log |-> "none"]
  /\ PipelineInit(0)

\* the rebuild queues the document
ScanDocument ==
  /\ calc.fn = "scenario" /\ calc.phase = "scan"
  /\ calc' = [calc EXCEPT !.phase = "queued",
                          !.item = SpecEdItem(calc.fileName, calc.folderName, calc.updatedMs)]
  /\ UNCHANGED pipeline

\* the batch loop reaches the item: the skip check, then OCR and extraction
ExtractDocument ==
  /\ calc.fn = "scenario" /\ calc.phase = "queued"
  /\ IF UnchangedItem(calc.processed, calc.item)
     THEN calc' = [calc EXCEPT !.phase = "done", !.log = "SKIP"]
     ELSE calc' = [calc EXCEPT !.phase = "extracted",
                     !.routes = RoutesOfReply(calc.reply,
                                              OrElse(calc.item.schoolNameHint, stripExtV4_(calc.item.fileName)),
                                              calc.item.busNumberHint)]
  /\ UNCHANGED pipeline

\* publishRoutesV4_ and the mark of line 73
PublishDocument ==
  /\ calc.fn = "scenario" /\ calc.phase = "extracted"
  /\ LET cleaned == CleanedOf(calc.routes, calc.item.schoolNameHint, calc.item.busNumberHint)
         located == [k \in 1..Len(cleaned) |-> WithCoordinates(cleaned[k], calc.geo)]
     IN calc' = [calc EXCEPT !.phase = "done",
                   !.log = IF cleaned = <<>> THEN "WARN" ELSE "OK",
                   !.drive = WriteRoutes(calc.drive, calc.item, located, 1),
                   !.processed = (calc.item.fileId :> Fingerprint(calc.item)) @@ @]
  /\ UNCHANGED pipeline

(* ---------------- one item, from its source to its artifacts ---------------- *)
\* try { parsed = JSON.parse(txt); } catch (_err) { parsed = []; } and the
\* Array.isArray test after it.  A text is given by what JSON.parse makes of it:
\* valid or not, the kind of value, and for an array its elements.
ParseReplyThrows(txt) ==
  [threw |-> ~txt.valid, isArray |-> txt.valid /\ txt.kind = "array",
   items |-> IF txt.valid /\ txt.kind = "array" THEN txt.items ELSE <<>>]

ParseReply(txt) ==
  IF ~txt.valid THEN [threw |-> FALSE, isArray |-> TRUE, items |-> <<>>]
  ELSE [threw |-> FALSE, isArray |-> txt.kind = "array",
        items |-> IF txt.kind = "array" THEN txt.items ELSE <<>>]

\* extractSpecEdRoutesV4_ for the OCR text and the response the fetch returns
\* (muteHttpExceptions: any status comes back as a response).  calls: requests
\* sent to the generative service.
extractSpecEdRoutesV4_(text, hasKey, res, fallbackSchool, fallbackBus) ==
  LET Out(thrown, routes, calls) == [thrown |-> thrown, routes |-> routes, calls |-> calls]
      parsed == ParseReply(res.text)
  IN IF text = <<>> THEN Out("none", <<>>, 0)
     ELSE IF ~hasKey THEN Out("missing_key", <<>>, 0)
     ELSE IF res.code # 200 THEN Out("http_status", <<>>, 1)
     ELSE IF ~res.json THEN Out("body_parse", <<>>, 1)
     ELSE IF ~res.hasText THEN Out("none", <<>>, 1)
     ELSE IF parsed.threw THEN Out("reply_parse", <<>>, 1)
     ELSE IF ~parsed.isArray THEN Out("none", <<>>, 1)
     ELSE Out("none", RoutesOfReply(parsed.items, fallbackSchool, fallbackBus), 1)

\* periodFromTimeV4_
periodFromTimeV4_(time) ==
  LET t == parseTimeMinsV4_(time) IN
  IF t = NoTime THEN "Route"
  ELSE IF t >= 360 /\ t <= 570 THEN "AM"
  ELSE IF t > 570 /\ t < 840 THEN "Mid-day"
  ELSE IF t >= 840 /\ t <= 1080 THEN "PM"
  ELSE "Route"

\* parseRegEdDocV4_ from the parsed red stop lines on: the stops grouped by the
\* period of their own time, one route per non-empty group, in the order AM,
\* PM, Mid-day, Route
parseRegEdDocV4_(parsed, docName, busHint) ==
  LET InGroup(p) == SelectSeq(parsed, LAMBDA stop : periodFromTimeV4_(stop.time) = p)
      RouteOf(group, p, bus, school) ==
        IF group = <<>> THEN <<>>
        ELSE <<[busNumber |-> bus, schoolName |-> school, period |-> p,
                stops |-> [k \in 1..Len(group) |->
                             [time |-> group[k].time, location |-> group[k].location,
                              students |-> <<>>]]]>>
      Routes(bus, school) ==
        RouteOf(InGroup("AM"), "AM", bus, school) \o RouteOf(InGroup("PM"), "PM", bus, school)
          \o RouteOf(InGroup("Mid-day"), "Mid-day", bus, school)
          \o RouteOf(InGroup("Route"), "Route", bus, school)
  IN IF parsed = <<>> THEN <<>>
     ELSE Routes(OrElse(normalizeBusV4_(OrElse(busHint, extractBusNumberV4_(docName))), <<"N", "-", "A">>),
                 OrElse(inferSchoolNameV4_(docName),
                        <<"U", "n", "k", "n", "o", "w", "n", " ", "R", "o", "u", "t", "e">>))

\* a queued item of either kind with what its source holds: for a PDF the text
\* OCR gives, whether the API key is set and the response of the generative
\* service; for a Google Doc its parsed red stop lines
ItemInit ==
  /\ LET Canonical == <<"4", "1", "0", "-", "5", "5", "5", "-", "0", "1", "0", "0">>
         Raw == <<"(", "4", "1", "0", ")", " ", "5", "5", "5", "-", "0", "1", "0", "0">>
         Stop(time, location, phone) ==
           [time |-> time, location |-> location,
            students |-> <<[name |-> "student", phoneNumber |-> phone]>>]
         Main(phone) == Stop(MainStop.time, MainStop.location, phone)
         Oak(time) == [time |-> time, location |-> <<"9", " ", "O", "a", "k", " ", "A", "v", "e">>]
         Elm(time) == [time |-> time, location |-> <<"4", " ", "E", "l", "m", " ", "C", "t">>]
         Route(bus, school, stops) ==
           [isRoute |-> TRUE, busNumber |-> bus, schoolName |-> school, stops |-> stops]
         NotARoute == [isRoute |-> FALSE, busNumber |-> <<>>, schoolName |-> <<>>, stops |-> <<>>]
         Atholton == <<"A", "t", "h", "o", "l", "t", "o", "n", " ", "H", "S">>
         Array(items) == [valid |-> TRUE, kind |-> "array", items |-> items]
         Texts ==
           {[valid |-> FALSE, kind |-> "none", items |-> <<>>],
            [valid |-> TRUE, kind |-> "object", items |-> <<>>],
            [valid |-> TRUE, kind |-> "string", items |-> <<>>],
            Array(<<>>),
            Array(<<NotARoute>>),
            Array(<<Route(<<>>, <<>>, <<Main(Raw)>>)>>),
            Array(<<Route(<<>>, <<>>, <<Main(Canonical)>>)>>),
            Array(<<NotARoute, Route(<<"2", "1">>, Atholton, <<Main(Raw)>>)>>),
            Array(<<Route(<<>>, <<>>, <<Main(Canonical)>>),
                    Route(<<>>, <<>>, <<Stop(<<"7", ":", "1", "0", " ", "A", "M">>, Oak(<<>>).location, Canonical)>>)>>),
            Array(<<Route(<<>>, <<>>, <<Main(Canonical)>>),
                    Route(<<>>, Atholton, <<Stop(<<"2", ":", "3", "0", " ", "P", "M">>, Oak(<<>>).location, Canonical)>>)>>)}
         Responses200 ==
           {[code |-> 200, json |-> TRUE, hasText |-> TRUE, text |-> t] : t \in Texts}
         Others ==
           {[code |-> 503, json |-> TRUE, hasText |-> FALSE, text |-> Array(<<>>)],
            [code |-> 200, json |-> FALSE, hasText |-> FALSE, text |-> Array(<<>>)],
            [code |-> 200, json |-> TRUE, hasText |-> FALSE, text |-> Array(<<>>)]}
         OcrTexts == {<<>>, <<" ", "\n">>, <<" ", "R", "o", "u", "t", "e", " ", "2", "1", "\n">>}
         Pdf == SpecEdItem(<<"0", "2", "1", " ", "G", "U", "I", "L", "F", "O", "R", "D", " ", "P", "A", "R", "K", ".", "p", "d", "f">>,
                           <<"2", "1">>, 1)
         DocNames ==
           {<<"1", "4", "5", " ", "A", "t", "h", "o", "l", "t", "o", "n", " ", "H", "S">>,
            <<"1", "4", "5", " ", "A", "t", "h", "o", "l", "t", "o", "n", " ", "H", "S", " ", "P", "M">>}
         Doc(name) ==
           [routeType |-> "REGED_DOC", fileId |-> 1, fileName |-> name, updatedMs |-> 1,
            busNumberHint |-> extractBusNumberV4_(name), schoolNameHint |-> inferSchoolNameV4_(name)]
         RedLines ==
           {Oak(<<"6", ":", "4", "2", " ", "A", "M">>), Elm(<<"6", ":", "5", "0", " ", "A", "M">>),
            Oak(<<"2", ":", "3", "0", " ", "P", "M">>), Elm(<<"1", "1", ":", "0", "0", " ", "A", "M">>),
            Elm(<<>>), Oak(<<"5", ":", "0", "0", " ", "A", "M">>)}
         Queued(item, ocr, hasKey, res, lines, geo) ==
           calc = [fn |-> "item", phase |-> "queued", item |-> item,
                   ocr |-> ocr, text |-> <<>>, hasKey |-> hasKey, res |-> res, lines |-> lines,
                   geo |-> geo, routes |-> <<>>, cleaned |-> <<>>, thrown |-> "none",
                   generativeCalls |-> 0, geocodeCalls |-> 0, drive |-> <<>>,
                   processed |-> <<>>, logs |-> <<>>]
     IN \E geo \in {[found |-> TRUE, lat |-> "39.12345", lng |-> "-76.54321"],
                    [found |-> FALSE, lat |-> "none", lng |-> "none"]} :
          \/ \E ocr \in OcrTexts, hasKey \in BOOLEAN, res \in Responses200 \cup Others :
               Queued(Pdf, ocr, hasKey, res, <<>>, geo)
          \/ \E name \in DocNames, lines \in SeqsUpTo(RedLines, MaxStops) :
               Queued(Doc(name), <<>>, TRUE, CHOOSE r \in Others : r.code = 503, lines, geo)
  /\ PipelineInit(0)

\* line 68: ocrPdfToTextV4_ returns the trimmed text of the OCR copy
OcrPdf ==
  /\ calc.fn = "item" /\ calc.phase = "queued" /\ calc.item.routeType = "SPECED_PDF"
  /\ calc' = [calc EXCEPT !.phase = "read", !.text = trim(calc.ocr)]
  /\ UNCHANGED pipeline

\* lines 65-70 and the catch of lines 74-76: the routes of the item, or the
\* [ERROR] line of an extraction that throws
ExtractItem ==
  /\ calc.fn = "item"
  /\ \/ calc.phase = "read" /\ calc.item.routeType = "SPECED_PDF"
     \/ calc.phase = "queued" /\ calc.item.routeType = "REGED_DOC"
  /\ LET item == calc.item
         Outcome(out) ==
           IF out.thrown # "none"
           THEN [calc EXCEPT !.phase = "done", !.thrown = out.thrown,
                             !.generativeCalls = out.calls, !.logs = Append(@, "ERROR")]
           ELSE [calc EXCEPT !.phase = "extracted", !.routes = out.routes,
                             !.generativeCalls = out.calls]
     IN calc' = Outcome(IF item.routeType = "REGED_DOC"
                        THEN [thrown |-> "none", calls |-> 0,
                              routes |-> parseRegEdDocV4_(calc.lines, item.fileName, item.busNumberHint)]
                        ELSE extractSpecEdRoutesV4_(calc.text, calc.hasKey, calc.res,
                                                    OrElse(item.schoolNameHint, stripExtV4_(item.fileName)),
                                                    item.busNumberHint))
  /\ UNCHANGED pipeline

\* publishRoutesV4_ (no service fails) and the mark of line 73.  The cache is
\* empty before the item: every stop is a query, except a location that an
\* earlier stop of the item has put into the cache.
PublishRoutes ==
  /\ calc.fn = "item" /\ calc.phase = "extracted"
  /\ LET cleaned == IF calc.routes = <<>> THEN <<>>
                    ELSE CleanedOf(calc.routes, calc.item.schoolNameHint, calc.item.busNumberHint)
         located == [k \in 1..Len(cleaned) |-> WithCoordinates(cleaned[k], calc.geo)]
         Stops(routes) ==
           {<<k, j>> \in (1..Len(routes)) \X (1..MaxStops) : j <= Len(routes[k].stops)}
         Queries(routes) == {toLowerCase(routes[p[1]].stops[p[2]].location) : p \in Stops(routes)}
     IN calc' = [calc EXCEPT !.phase = "done",
                   !.cleaned = cleaned,
                   !.geocodeCalls = Cardinality(IF calc.geo.found THEN Queries(cleaned)
                                                ELSE Stops(cleaned)),
                   !.logs = IF cleaned = <<>> THEN Append(@, "WARN")
                            ELSE @ \o [k \in 1..(Len(cleaned) * WritesPerRoute) |-> "OK"],
                   !.drive = WriteRoutes(calc.drive, calc.item, located, 1),
                   !.processed = (calc.item.fileId :> Fingerprint(calc.item)) @@ @]
  /\ UNCHANGED pipeline

SpecItem == ItemInit /\ [][OcrPdf \/ ExtractItem \/ PublishRoutes]_vars

(* ---------------- the retry executor around the generative call ---------------- *)
MaxAttempts == 4
JITTER_MS_V4 == 200

RECURSIVE Pow2(_)
Pow2(n) == IF n = 0 THEN 1 ELSE 2 * Pow2(n - 1)

\* baseMs * Math.pow(2, i) + Math.floor(Math.random() * 200), the random part given
BackoffMs(baseMs, i, jitter) == baseMs * Pow2(i) + jitter

\* a catch block that never sees the last attempt
LastAttemptNever(i, attempts) == FALSE

\* if (i >= attempts - 1) break;
LastAttempt(i, attempts) == i >= attempts - 1

\* what UrlFetchApp.fetch with muteHttpExceptions returns: the response, whatever
\* its HTTP status
Responses == {"ok200", "malformed200", "http429", "http503", "http400"}

\* extractSpecEdRoutesV4_ is entered with a text to send; withRetryV4_ is entered
\* with i = 0 and lastErr = null
RetryInit ==
  /\ \E attempts \in 0..MaxAttempts, baseMs \in {500, 1000}, key \in BOOLEAN :
       calc = [fn |-> "retry", attempts |-> attempts, baseMs |-> baseMs, hasKey |-> key,
               status |-> "start", i |-> 0, outcomes |-> <<>>, waits |-> <<>>,
               lastErr |-> "null", thrown |-> "none", result |-> "none"]
  /\ PipelineInit(0)

\* line 261: without the script property the function throws before any call
KeyCheck ==
  /\ calc.fn = "retry" /\ calc.status = "start"
  /\ calc' = IF calc.hasKey THEN [calc EXCEPT !.status = "loop"]
             ELSE [calc EXCEPT !.status = "failed", !.thrown = "missing_key"]
  /\ UNCHANGED pipeline

\* one pass of the loop in which fn returns: withRetryV4_ returns that response
AttemptReturns ==
  /\ calc.fn = "retry" /\ calc.status = "loop" /\ calc.i < calc.attempts
  /\ \E response \in Responses :
       calc' = [calc EXCEPT !.status = "returned", !.result = response,
                            !.outcomes = Append(@, response)]
  /\ UNCHANGED pipeline

\* one pass of the loop in which fn throws (the fetch itself fails): the error is
\* kept, and unless the attempt was the last the executor sleeps and goes on
AttemptThrows ==
  /\ calc.fn = "retry" /\ calc.status = "loop" /\ calc.i < calc.attempts
  /\ IF LastAttempt(calc.i, calc.attempts)
     THEN calc' = [calc EXCEPT !.status = "failed", !.lastErr = "fetch_error",
                               !.thrown = "fetch_error",
                               !.outcomes = Append(@, "fetch_error")]
     ELSE \E jitter \in {0, 1, JITTER_MS_V4 - 1} :
            calc' = [calc EXCEPT !.lastErr = "fetch_error",
                                 !.outcomes = Append(@, "fetch_error"),
                                 !.waits = Append(@, BackoffMs(calc.baseMs, calc.i, jitter)),
                                 !.i = @ + 1]
  /\ UNCHANGED pipeline

\* the loop condition fails: throw lastErr
LoopExhausted ==
  /\ calc.fn = "retry" /\ calc.status = "loop" /\ ~(calc.i < calc.attempts)
  /\ calc' = [calc EXCEPT !.status = "failed", !.thrown = calc.lastErr]
  /\ UNCHANGED pipeline

\* lines 328-341: a response other than 200 is thrown as an error, unparsable text
\* gives no routes
HandleResponse ==
  /\ calc.fn = "retry" /\ calc.status = "returned"
  /\ calc' = IF calc.result \notin {"ok200", "malformed200"}
             THEN [calc EXCEPT !.status = "failed", !.thrown = calc.result]
             ELSE [calc EXCEPT !.status = "done"]
  /\ UNCHANGED pipeline

(* ---------------- the Bus Stops folder, file by file ---------------- *)
\* cleaned routes: bus number, canonical file stem, and the rest of the content
CleanedRoutes ==
  [busNumber : {"021", "145"}, stem : {"GUILFORD PARK (AM)", "GUILFORD PARK (PM)"},
   stops : {1, 2}]

\* the artifact written for a route at time `now`
ArtifactOf(route, now) == [route |-> route, generatedAt |-> now]

\* an upsert that never looks for an existing file
upsertAlwaysCreates(folder, fileName, payload) ==
  Append(folder, [name |-> fileName, content |-> payload])

\* upsertJsonV4_ on a Drive folder, a list of files in which names can repeat:
\* the first file of that name gets the payload as its whole content, and a
\* file is created when there is none
upsertInFolder(folder, fileName, payload) ==
  IF \E k \in 1..Len(folder) : folder[k].name = fileName
  THEN LET first == CHOOSE k \in 1..Len(folder) :
                      /\ folder[k].name = fileName
                      /\ \A j \in 1..(k - 1) : folder[j].name # fileName
       IN [folder EXCEPT ![first].content = payload]
  ELSE Append(folder, [name |-> fileName, content |-> payload])

\* the bus sub-folders of Bus Stops start empty; `now` is the clock
PublishInit ==
  /\ calc = [fn |-> "publish", busStops |-> [b \in {"021", "145"} |-> <<>>], now |-> 0,
             published |-> <<>>]
  /\ PipelineInit(0)

\* one iteration of publishRoutesV4_'s loop for a cleaned route
PublishRoute ==
  /\ calc.fn = "publish"
  /\ calc.now < MaxPublishes
  /\ \E route \in CleanedRoutes :
       calc' = [calc EXCEPT
                  !.busStops[route.busNumber] =
                     upsertInFolder(@, route.stem, ArtifactOf(route, calc.now)),
                  !.now = @ + 1,
                  !.published = Append(@, route)]
  /\ UNCHANGED pipeline

SpecPublish == PublishInit /\ [][PublishRoute]_vars

SpecClean == CleanInit /\ [][CleanAndFilter]_vars

SpecPeriod == PeriodInit /\ [][Classify]_vars

SpecPhones == PhonesInit /\ [][NormalizePhones]_vars

SpecScenario == ScenarioInit /\ [][ScanDocument \/ ExtractDocument \/ PublishDocument]_vars

SpecRetry ==
  RetryInit /\ [][KeyCheck \/ AttemptReturns \/ AttemptThrows \/ LoopExhausted \/ HandleResponse]_vars

(* ---------------- specifications ---------------- *)
\* the steps of an execution once it has the lock
RunStep(i) ==
  \/ LoadAndPrepare(i) \/ RebuildThrows(i) \/ OutputRootThrows(i)
  \/ SkipItem(i) \/ ExtractThrows(i) \/ NothingToPublish(i) \/ PublishItem(i)
  \/ PostBatch(i) \/ AppendLogsThrows(i) \/ ScheduleThrows(i) \/ SaveThrows(i)
  \/ Release(i)

SyncStep(i) ==
  \/ InvokeManual(i) \/ InvokeContinuation(i)
  \/ TryLockOk(i) \/ TryLockFail(i)
  \/ RunStep(i)

\* executions of the sync entrypoint, overlapping
Next == \E i \in Invocations : SyncStep(i)

Spec == Init /\ [][Next]_vars

\* executions one after the other, and edits of the source documents
NextEdits ==
  \/ InvokeManual("a") \/ InvokeContinuation("a")
  \/ TryLockOk("a")
  \/ RunStep("a")
  \/ \E f \in Files : Touch(f)

SpecEdits == Init /\ [][NextEdits]_vars

\* executions of the sync entrypoint one after the other, started by hand or
\* by a trigger, and the operator's entrypoints, which run at any moment
NextOperators ==
  \/ InvokeManual("a") \/ InvokeRecurring("a") \/ InvokeContinuation("a")
  \/ TryLockOk("a")
  \/ RunStep("a")
  \/ RebuildQueueOnly
  \/ ResetRouteSync
  \/ InstallRecurring

SpecOperators == Init /\ [][NextOperators]_vars

\* the trampoline: one first execution, then only the continuations the runs
\* schedule; no run-level error.  Every enabled step is eventually taken: the
\* continuation trigger fires and the execution runs to its end.
FirstInvoke(i) == budget.invoked = 0 /\ InvokeManual(i)

NextTrampoline ==
  \/ FirstInvoke("a")
  \/ InvokeContinuation("a")
  \/ TryLockOk("a")
  \/ LoadAndPrepare("a")
  \/ SkipItem("a") \/ ExtractThrows("a") \/ NothingToPublish("a") \/ PublishItem("a")
  \/ PostBatch("a")
  \/ Release("a")

SpecTrampoline == Init /\ [][NextTrampoline]_vars /\ WF_vars(NextTrampoline)

\* before the first run the state document exists with a text that is no JSON
\* (cut short, or edited by hand); the text spells out the beginning of a state
\* in which every source document is recorded as processed
StateDocumentDamaged ==
  /\ budget.invoked = 0 /\ ~disk.exists
  /\ LET queue == SortDesc(ScanSources(src)) IN
     disk' = [exists |-> TRUE, parses |-> FALSE,
              doc |-> [queue |-> queue, pos |-> Min(1, Len(queue)),
                       processed |-> [f \in DOMAIN src |-> Fingerprint(MakeItem(f, src[f]))],
                       geocodeCache |-> <<>>]]
  /\ UNCHANGED <<src, artifacts, logSheet, triggers, lock, pc, mem, endIdx, logs,
                 startPos, asked, exit, lastItem, lastWrite, pass, budget, calc>>

\* the trampoline started on a missing or a damaged state document
SpecRecover ==
  Init /\ [][NextTrampoline \/ StateDocumentDamaged]_vars /\ WF_vars(NextTrampoline)

\* passes one after the other: the entrypoint keeps being invoked (by hand or
\* by the continuation it scheduled) and every execution runs to its end,
\* without a run-level error; documents are edited in between
RunOn ==
  \/ InvokeManual("a") \/ InvokeContinuation("a")
  \/ TryLockOk("a")
  \/ LoadAndPrepare("a")
  \/ SkipItem("a") \/ ExtractThrows("a") \/ NothingToPublish("a") \/ PublishItem("a")
  \/ PostBatch("a")
  \/ Release("a")

SpecPasses == Init /\ [][RunOn \/ \E f \in Files : Touch(f)]_vars /\ WF_vars(RunOn)


(* ======================= properties ======================= *)
Holding(i) == pc[i] \in {"locked", "batch", "finally"}
AllIdle == \A i \in Invocations : pc[i] = "idle"

\* C1: at most one execution of the sync entrypoint is between its lock
\* acquisition and its lock release, so no two executions load, batch-process
\* or save the state, or work on a queue position, at the same time.
C1_MutualExclusion ==
  \A i, j \in Invocations : (i # j /\ Holding(i)) => ~Holding(j)

\* an execution is inside its batch loop while another one has started
C1_Witness ==
  \E i, j \in Invocations :
    i # j /\ pc[i] = "batch" /\ mem[i].pos > startPos[i] /\ pc[j] = "try"

\* C2: every write of the state document is made by the holder of the run
\* lock, and no operator entrypoint writes it while a sync run holds the lock.
C2_WritesUnderLock ==
  /\ lastWrite.by \in Invocations => lastWrite.holder = lastWrite.by
  /\ ~(lastWrite.by \in Operators /\ lastWrite.holder \in Invocations)

\* C3: for every item visited, either all its cleaned routes were published and
\* the item was marked processed, or no artifact of it was written and it was
\* not marked.
C3_ItemAllOrNothing ==
  lastItem.kind \in {"ok", "warn", "error"} =>
    \/ lastItem.wrote = lastItem.cleaned /\ lastItem.marked
    \/ lastItem.wrote = 0 /\ ~lastItem.marked

\* C4: an item is marked processed only when at least one route of it was
\* published; a [WARN] outcome leaves processed unchanged.
C4_MarkedOnlyWhenPublished ==
  /\ lastItem.marked => lastItem.wrote >= 1
  /\ lastItem.kind = "warn" => ~lastItem.marked

\* C5: a visited item is extracted if and only if its fingerprint differs from
\* processed[sourceId] (no entry counts as differing), whatever its timestamp.
C5_ReprocessIffFingerprintDiffers ==
  lastItem.kind \in {"skip", "ok", "warn", "error"} =>
    (lastItem.extracted <=> lastItem.differs)

\* C6: an execution that has ended does not hold the lock, on every exit path.
C6_LockReleasedOnExit ==
  \A i \in Invocations : pc[i] \in {"idle", "try"} => lock # i

\* an execution ended by an exception, and the lock is free
C6_Witness == AllIdle /\ exit = "exception" /\ lock = NoOne

\* C7: an execution that cannot get the lock ends without an error and changes
\* nothing: state document, artifacts, Logs sheet, triggers; it makes no
\* service call.
C7_SkipIsNoOp ==
  [][\A i \in Invocations :
       (pc[i] = "try" /\ pc'[i] = "idle") =>
         /\ exit' = "skipped"
         /\ UNCHANGED <<src, disk, artifacts, logSheet, triggers, lock, lastItem, mem>>]_vars

\* an execution was refused the lock while another one was in its batch
C7_Witness == exit = "skipped" /\ \E i \in Invocations : pc[i] = "batch"

\* C8: the step that ends a run's batch leaves exactly one of two outcomes:
\* cursor < len(queue): a continuation is pending and the saved state holds the
\* same queue with the advanced cursor; otherwise the saved queue is empty, the
\* saved cursor 0 and no continuation is pending.
C8_ContinueOrComplete ==
  [][\A i \in Invocations :
       (pc[i] = "batch" /\ pc'[i] = "finally" /\ exit' # "exception") =>
         IF mem[i].pos < Len(mem[i].queue)
         THEN /\ exit' = "continued"
              /\ triggers'.cont = 1
              /\ disk'.exists
              /\ disk'.doc.queue = mem[i].queue
              /\ disk'.doc.pos = mem[i].pos
              /\ mem[i].pos = endIdx[i]
         ELSE /\ exit' = "complete"
              /\ triggers'.cont = 0
              /\ disk'.exists
              /\ disk'.doc.queue = <<>>
              /\ disk'.doc.pos = 0]_vars

\* a run has ended its batch short of the queue end and scheduled a continuation
C8_Witness ==
  \E i \in Invocations :
    /\ pc[i] = "finally" /\ exit = "continued"
    /\ triggers.cont = 1 /\ disk.doc.pos > 0 /\ disk.doc.pos < Len(disk.doc.queue)

\* ceil(n / B), and 1 for the empty queue
RunsNeeded(n) == IF n = 0 THEN 1 ELSE (n + BATCH_SIZE_V4 - 1) \div BATCH_SIZE_V4

Completed ==
  /\ AllIdle /\ exit = "complete"
  /\ disk.doc.queue = <<>> /\ disk.doc.pos = 0 /\ triggers.cont = 0

\* C9: from a freshly built queue of n items the pipeline reaches the completed
\* state, after exactly ceil(n/B) lock-holding runs (one when n = 0), and no
\* run works on more than its batch.
C9_Trampoline ==
  /\ <>Completed
  /\ [](exit = "complete" => pass.runs = RunsNeeded(pass.len))
  /\ [](\A i \in Invocations : mem[i].pos - startPos[i] <= BATCH_SIZE_V4)

\* a queue longer than one batch was completed by a continuation run
C9_Witness == Completed /\ pass.len > BATCH_SIZE_V4 /\ pass.runs >= 2

\* C10: in one run the cursor advances by exactly min(batchSize, len(queue) -
\* cursor): the loop ends at that position, and every iteration, skip and
\* failure included, advances the cursor by one.
C10_BatchAdvance ==
  /\ [](\A i \in Invocations : pc[i] = "batch" =>
          /\ endIdx[i] = startPos[i] + Min(BATCH_SIZE_V4, Len(mem[i].queue) - startPos[i])
          /\ startPos[i] <= mem[i].pos /\ mem[i].pos <= endIdx[i])
  /\ [][\A i \in Invocations :
          (pc[i] = "batch" /\ pc'[i] = "batch" /\ (mem'[i] # mem[i] \/ lastItem' # lastItem)) =>
            mem'[i].pos = mem[i].pos + 1]_vars

\* the loop has ended a full batch whose last item was skipped or failed
C10_Witness ==
  \E i \in Invocations :
    /\ LoopDone(i) /\ mem[i].pos = startPos[i] + BATCH_SIZE_V4
    /\ lastItem.kind \in {"skip", "error"}

\* 0 <= pos <= len(queue)
CursorInQueue(state) == 0 <= state.pos /\ state.pos <= Len(state.queue)

\* C11: the cursor is within the queue, 0 <= cursor <= len(queue), in the
\* persisted state document and in the state object of every run at every
\* point of its batch loop and after it.
C11_CursorWithinQueue ==
  /\ CursorInQueue(loadStateV4_(disk))
  /\ \A i \in Invocations : pc[i] \in {"batch", "finally"} => CursorInQueue(mem[i])

\* a continuation run has walked its cursor to the end of a resumed queue
C11_Witness ==
  \E i \in Invocations :
    /\ pc[i] = "batch" /\ startPos[i] > 0
    /\ mem[i].pos = Len(mem[i].queue)
    /\ disk.exists /\ disk.doc.pos = startPos[i]

\* C12: a run rebuilds the queue and resets the cursor to 0 if and only if the
\* loaded queue is empty or the loaded cursor has reached its end; otherwise
\* it resumes at the persisted cursor with the persisted queue, contents and
\* order unchanged, whatever the sources are by then.
C12_RebuildIffUsedUp ==
  [][\A i \in Invocations :
       (pc[i] = "locked" /\ pc'[i] = "batch") =>
         LET loaded == loadStateV4_(disk) IN
         IF loaded.queue = <<>> \/ loaded.pos >= Len(loaded.queue)
         THEN /\ mem'[i].queue = SortDesc(ScanSources(src))
              /\ mem'[i].pos = 0
              /\ pass'.len = Len(mem'[i].queue) /\ pass'.runs = 0
         ELSE /\ mem'[i].queue = loaded.queue
              /\ mem'[i].pos = loaded.pos
              /\ pass' = pass]_vars

\* a run resumed in the middle of a queue that a rebuild would have ordered
\* differently (a source was edited since)
C12_Witness ==
  \E i \in Invocations :
    /\ pc[i] = "batch" /\ startPos[i] > 0
    /\ mem[i].queue # SortDesc(ScanSources(src))

\* C13: an exception raised while extracting, cleaning, geocoding or publishing
\* one item is caught and logged at the item boundary: the step leaves the run
\* in its loop with the cursor one further, an [ERROR] line and the batch end
\* and queue as they were; the loop then runs to its batch end, and the run
\* saves the state and schedules or completes.
C13_ItemErrorContained ==
  /\ [][\A i \in Invocations :
          (pc[i] = "batch" /\ lastItem'.kind = "error" /\ lastItem' # lastItem) =>
            /\ pc'[i] = "batch"
            /\ mem'[i].pos = mem[i].pos + 1
            /\ "ERROR" \in logs'[i]
            /\ mem'[i].queue = mem[i].queue /\ endIdx' = endIdx
            /\ exit' = exit /\ lock' = lock /\ disk' = disk]_vars
  /\ \A i \in Invocations :
       (pc[i] = "batch" /\ "ERROR" \in logs[i])
         ~> (LoopDone(i) /\ mem[i].pos = endIdx[i] /\ "ERROR" \in logs[i])
  /\ \A i \in Invocations :
       (pc[i] = "batch" /\ "ERROR" \in logs[i])
         ~> (pc[i] = "finally" /\ exit \in {"continued", "complete"} /\ disk.doc = mem[i])

\* a run has saved and ended normally; an item of its batch failed and the
\* item after it was published whole
C13_Witness ==
  \E i \in Invocations :
    /\ pc[i] = "finally" /\ exit \in {"continued", "complete"}
    /\ "ERROR" \in logs[i]
    /\ lastItem.kind = "ok" /\ lastItem.wrote = lastItem.cleaned
    /\ disk.doc = mem[i]

\* C14: a missing generative-service API key is fatal: the run that meets it
\* is aborted by the exception, is not left in its batch loop, and has marked
\* no item: its processed map is the persisted one.
C14_MissingKeyIsFatal ==
  \A i \in Invocations :
    (Holding(i) /\ lastItem.cause = "no_key") =>
      /\ pc[i] = "finally" /\ exit = "exception"
      /\ mem[i].processed = loadStateV4_(disk).processed

\* C15: when a source collection is missing at a rebuild, the error leaves the
\* entrypoint: the failing step and the release after it leave the state
\* document, the artifacts, the Logs sheet and the triggers as they were, no
\* item is visited, and the release frees the lock.
C15_MissingSourcePropagates ==
  /\ [][\A i \in Invocations :
          (pc[i] = "locked" /\ pc'[i] = "finally") =>
            /\ exit' \in {"missing_source", "exception"}
            /\ UNCHANGED <<disk, artifacts, logSheet, triggers, lastItem>>
            /\ mem'[i] = EmptyState /\ lock' = i]_vars
  /\ [][\A i \in Invocations :
          (pc[i] = "finally" /\ pc'[i] = "idle") =>
            /\ lock' = NoOne
            /\ UNCHANGED <<disk, artifacts, logSheet, triggers>>]_vars

\* a run of a later pass ended on the missing source collection: the lock is
\* free and the state document is the one the pass before left
C15_Witness ==
  /\ AllIdle /\ exit = "missing_source" /\ lock = NoOne
  /\ disk.exists /\ DOMAIN disk.doc.processed # {}

\* C16: a lock-holding run loads the state once and persists it exactly once:
\* the state document is written only by the step that ends a run's batch,
\* never by a loop iteration; the loop works on the queue it loaded; and every
\* run that reaches its release, an exception's early exit included, has
\* stored its state object in the state document.
C16_PersistedOncePerRun ==
  /\ [][disk' # disk => \E i \in Invocations : pc[i] = "batch" /\ pc'[i] = "finally"]_vars
  /\ [][\A i \in Invocations :
          (pc[i] = "batch" /\ pc'[i] = "batch") => mem'[i].queue = mem[i].queue]_vars
  /\ [](\A i \in Invocations : pc[i] = "finally" => disk.exists /\ disk.doc = mem[i])

\* C17: an item that is marked processed with the fingerprint of its present
\* timestamp (it was marked by an earlier pass and its source is unchanged) is
\* skipped: no extraction (OCR, generative service), no geocoding call, no
\* publish; so a pass over a queue of such items makes none of these calls.
C17_UnchangedPassMakesNoCalls ==
  [][\A i \in Invocations :
       (/\ pc[i] = "batch" /\ pc'[i] = "batch" /\ mem'[i].pos = mem[i].pos + 1
        /\ ~FingerprintDiffers(mem[i].processed, CurrentItem(mem[i]))) =>
         /\ lastItem'.kind = "skip" /\ lastItem'.fileId = CurrentItem(mem[i]).fileId
         /\ ~lastItem'.extracted
         /\ lastItem'.geocodeCalls = 0 /\ lastItem'.wrote = 0
         /\ UNCHANGED artifacts
         /\ mem'[i].geocodeCache = mem[i].geocodeCache
         /\ mem'[i].processed = mem[i].processed]_vars

\* the second pass over a queue of several runs has ended; every document is
\* marked processed and the last run only skipped
C17_Witness ==
  \E i \in Invocations :
    /\ pc[i] = "finally" /\ exit = "complete" /\ logs[i] = {"SKIP"}
    /\ pass.len > BATCH_SIZE_V4 /\ pass.runs = RunsNeeded(pass.len)
    /\ budget.invoked = 2 * pass.runs /\ budget.faults = 0
    /\ \A f \in DOMAIN src :
         f \in DOMAIN disk.doc.processed /\ disk.doc.processed[f] = Digits(src[f])

\* C18: the step that ends a run's batch, whether it schedules a continuation
\* or completes the queue, leaves the operator's recurring trigger installed.
C18_RecurringTriggerSurvives ==
  [][\A i \in Invocations :
       (pc[i] = "batch" /\ pc'[i] = "finally" /\ triggers.recurring) =>
         triggers'.recurring]_vars

\* C19: within one run the geocoding service is called at most once for each
\* query: no item sends a query that the run has sent before, whether that
\* lookup had a match or not.
C19_OneCallPerQuery == lastItem.repeatCalls = 0

\* every key of the state `before` is a key of the state `after`, and the
\* geocodeCache entries keep their coordinates
OnlyGrows(before, after) ==
  /\ DOMAIN before.processed \subseteq DOMAIN after.processed
  /\ \A k \in DOMAIN before.geocodeCache :
       k \in DOMAIN after.geocodeCache /\ after.geocodeCache[k] = before.geocodeCache[k]

\* C20: across every run of the sync entrypoint processed and geocodeCache only
\* grow: each write of the state document keeps every key the document had,
\* and the coordinates of its geocodeCache entries; so does each step of a run
\* on its in-memory state.
C20_ProcessedAndCacheOnlyGrow ==
  /\ [][disk' # disk => OnlyGrows(loadStateV4_(disk), loadStateV4_(disk'))]_vars
  /\ [][\A i \in Invocations :
          (pc[i] = "batch" /\ pc'[i] \in {"batch", "finally"}) =>
            OnlyGrows(mem[i], mem'[i])]_vars
  /\ [](\A k \in DOMAIN loadStateV4_(disk).geocodeCache :
          HasMatch(k) /\ loadStateV4_(disk).geocodeCache[k] = CoordOf(k))

\* a run has saved: it skipped an item marked before it and marked another;
\* the saved state holds both marks and a geocodeCache entry
C20_Witness ==
  \E i \in Invocations :
    /\ pc[i] = "finally" /\ disk.exists /\ disk.doc = mem[i]
    /\ "SKIP" \in logs[i] /\ lastItem.kind = "ok"
    /\ Cardinality(DOMAIN disk.doc.processed) >= 2
    /\ DOMAIN disk.doc.geocodeCache # {}

\* C21: after geocoding every cleaned stop is there, in the same order; a stop
\* has the coordinates of its query's cache entry or service result and no
\* geocodeError, or a geocodeError and no coordinates; and an item whose stops
\* include a no-match is published whole and marked like any other.
C21_GeocodeKeepsEveryStop ==
  LET stops == lastItem.stops
      locs == StopLocs(lastItem.fileId, lastItem.cleaned)
  IN /\ Len(stops) <= lastItem.cleaned
     /\ \A k \in 1..Len(stops) :
          /\ stops[k].loc = locs[k]
          /\ IF HasMatch(locs[k])
             THEN ~stops[k].geocodeError /\ stops[k].coord = CoordOf(locs[k])
             ELSE stops[k].geocodeError /\ stops[k].coord = 0
     /\ lastItem.kind = "ok" =>
          /\ Len(stops) = lastItem.cleaned
          /\ lastItem.wrote = lastItem.cleaned /\ lastItem.marked

\* an item was published whole with one stop located from the cache and one
\* stop without a match
C21_Witness ==
  /\ lastItem.kind = "ok" /\ lastItem.wrote = lastItem.cleaned
  /\ \E k \in 1..Len(lastItem.stops) : lastItem.stops[k].geocodeError
  /\ \E k \in 1..Len(lastItem.stops) : ~lastItem.stops[k].geocodeError
  /\ lastItem.geocodeCalls < Len(lastItem.stops)

\* the files of a folder without their generatedAt
WithoutGeneratedAt(folder) == [k \in 1..Len(folder) |-> [name |-> folder[k].name,
                                                         route |-> folder[k].content.route]]

\* C22: publishing a route leaves exactly one artifact of its name in its bus
\* folder, whose whole content is the route just published (nothing of the
\* artifact it replaced), and the other files as they were; publishing the
\* same route again changes nothing but generatedAt.
C22_PublishIsIdempotentOverwrite ==
  [][calc'.now = calc.now + 1 =>
       LET route == calc'.published[Len(calc'.published)]
           before == calc.busStops[route.busNumber]
           after == calc'.busStops[route.busNumber]
           named == {k \in 1..Len(after) : after[k].name = route.stem}
       IN /\ Cardinality(named) = 1
          /\ \A k \in named : after[k].content = ArtifactOf(route, calc.now)
          /\ \A k \in 1..Len(before) : before[k].name # route.stem => after[k] = before[k]
          /\ \A b \in DOMAIN calc.busStops :
               b # route.busNumber => calc'.busStops[b] = calc.busStops[b]
          /\ (\E k \in 1..Len(before) : before[k].content.route = route) =>
               /\ WithoutGeneratedAt(after) = WithoutGeneratedAt(before)
               /\ after # before]_vars

\* the same route was published twice in a row and a different route of the
\* same name before them; the folder holds the one artifact
C22_Witness ==
  /\ calc.fn = "publish" /\ Len(calc.published) >= 3
  /\ LET n == Len(calc.published)
         route == calc.published[n]
     IN /\ calc.published[n - 1] = route
        /\ calc.published[n - 2].busNumber = route.busNumber
        /\ calc.published[n - 2].stops # route.stops
        /\ Len(calc.busStops[route.busNumber]) = 1
        /\ calc.busStops[route.busNumber][1].content = ArtifactOf(route, n - 1)

\* the stops of a raw route that survive the filters of the cleaning loop, normalized,
\* before any duplicate is removed
RECURSIVE KeptStops(_, _, _)
KeptStops(arr, k, school) ==
  IF k > Len(arr) THEN <<>>
  ELSE LET loc == cleanLocationV4_(arr[k].location)
           rest == KeptStops(arr, k + 1, school)
       IN IF loc = <<>> \/ toLowerCase(loc) = toLowerCase(school) \/ IsManeuver(loc)
          THEN rest
          ELSE <<[time |-> normalizeTimeV4_(arr[k].time), location |-> loc,
                  students |-> arr[k].students]>> \o rest

\* the case-insensitive (normalized time, cleaned location) key of a stop
PairKey(stop) == <<toLowerCase(stop.time), toLowerCase(stop.location)>>

\* a stop list with every later duplicate removed
FirstOccurrences(stops) ==
  LET first == {k \in 1..Len(stops) : \A j \in 1..(k - 1) : PairKey(stops[j]) # PairKey(stops[k])}
      RECURSIVE From(_)
      From(k) == IF k > Len(stops) THEN <<>>
                 ELSE IF k \in first THEN <<stops[k]>> \o From(k + 1) ELSE From(k + 1)
  IN From(1)

\* C23: after cleaning, no two stops of a route share the same case-insensitive
\* (normalized time, cleaned location) key, and the output is exactly the kept input
\* stops with every later duplicate removed, first occurrence first, order preserved
C23_DedupeFirstWins ==
  (calc.fn = "clean" /\ calc.done) =>
    \A r \in 1..Len(calc.routes) :
      LET out == calc.mapped[r].stops
          kept == KeptStops(calc.routes[r].stops, 1, calc.mapped[r].schoolName)
      IN /\ \A a, b \in 1..Len(out) : a # b => PairKey(out[a]) # PairKey(out[b])
         /\ out = FirstOccurrences(kept)

\* C24: no artifact with an empty stops list is handed to the writer: the written
\* artifacts are the cleaned routes that still have stops, in order, and when every
\* route is dropped nothing is written
C24_NoEmptyArtifact ==
  (calc.fn = "clean" /\ calc.done) =>
    /\ \A k \in 1..Len(calc.written) : calc.written[k].stops # <<>>
    /\ calc.written = SelectSeq(calc.mapped, LAMBDA r : r.stops # <<>>)
    /\ (\A r \in 1..Len(calc.mapped) : calc.mapped[r].stops = <<>>) => calc.written = <<>>

\* a route lost all its stops to cleaning while another route of the item was written
C24_Witness ==
  /\ calc.fn = "clean" /\ calc.done
  /\ \E r \in 1..Len(calc.mapped) : calc.mapped[r].stops = <<>> /\ calc.routes[r].stops # <<>>
  /\ calc.written # <<>>

\* the place of an item in the scan
ScanIndex(scan, item) == CHOOSE k \in 1..Len(scan) : scan[k].fileId = item.fileId

\* queue holds the items of scan, most recently updated first, equally recent items
\* in the order of the scan
StableDescOf(queue, scan) ==
  /\ Len(queue) = Len(scan)
  /\ \A k \in 1..Len(scan) : \E j \in 1..Len(queue) : queue[j] = scan[k]
  /\ \A a, b \in 1..Len(queue) :
       a < b => \/ queue[a].updatedMs > queue[b].updatedMs
                \/ /\ queue[a].updatedMs = queue[b].updatedMs
                   /\ ScanIndex(scan, queue[a]) < ScanIndex(scan, queue[b])

\* C25: a rebuild yields the scanned items ordered by last-modified time descending,
\* ties in scan order; afterwards the queue is never reordered: every step of the
\* batch loop handles the item at the cursor and moves the cursor one position on
\* over the same queue, what is saved is that queue (or the empty one when the pass
\* is complete), and a continuation run resumes that queue at the saved cursor
C25_QueueOrderFixedAtBuild ==
  [][\A i \in Invocations :
       /\ (pc[i] = "locked" /\ pc'[i] = "batch") =>
            IF NeedsRebuild(loadStateV4_(disk))
            THEN StableDescOf(mem'[i].queue, ScanSources(src)) /\ mem'[i].pos = 0
            ELSE mem'[i].queue = disk.doc.queue /\ mem'[i].pos = disk.doc.pos
       /\ (pc[i] = "batch" /\ pc'[i] = "batch" /\ mem'[i] # mem[i]) =>
            /\ mem'[i].queue = mem[i].queue
            /\ mem'[i].pos = mem[i].pos + 1
            /\ lastItem'.kind # "hole" => lastItem'.fileId = mem[i].queue[mem[i].pos + 1].fileId
       /\ (pc[i] = "batch" /\ pc'[i] = "finally" /\ disk' # disk) =>
            /\ disk'.doc.pos = IF disk'.doc.queue = <<>> THEN 0 ELSE mem[i].pos
            /\ disk'.doc.queue \in {mem[i].queue, <<>>}
            /\ disk'.doc.queue = <<>> => mem[i].pos >= Len(mem[i].queue)]_vars

\* a continuation run is under way on a queue built with two equally recent items
C25_Witness ==
  \E i \in Invocations :
    /\ pc[i] = "batch" /\ startPos[i] > 0 /\ mem[i].pos > startPos[i]
    /\ \E a, b \in 1..Len(mem[i].queue) :
         a < b /\ mem[i].queue[a].updatedMs = mem[i].queue[b].updatedMs

\* the parseable stop times of a stop list, in minutes past midnight
ParseableTimes(stops) == {parseTimeMinsV4_(stops[k].time) : k \in 1..Len(stops)} \ {NoTime}

EarliestTime(stops) == CHOOSE t \in ParseableTimes(stops) : \A u \in ParseableTimes(stops) : t <= u

\* C26: the period of a route is decided by its earliest parseable stop time t,
\* wherever that stop stands in the list: 360 <= t <= 570 is AM, 570 < t < 840 is
\* Mid-day, 840 <= t <= 1080 is PM; "6:42 AM" is 402 minutes and gives AM, "4:15 PM"
\* is 975 minutes and gives PM
C26_PeriodByEarliestTime ==
  (calc.fn = "period" /\ calc.done /\ ParseableTimes(calc.stops) # {}) =>
    LET t == EarliestTime(calc.stops) IN
    /\ (360 <= t /\ t <= 570) => calc.period = "AM"
    /\ (570 < t /\ t < 840) => calc.period = "Mid-day"
    /\ (840 <= t /\ t <= 1080) => calc.period = "PM"
    /\ \A k \in 1..Len(calc.stops) :
         /\ calc.stops[k].time = <<"6", ":", "4", "2", " ", "A", "M">> =>
              parseTimeMinsV4_(calc.stops[k].time) = 402 /\ (t = 402 => calc.period = "AM")
         /\ calc.stops[k].time = <<"4", ":", "1", "5", " ", "P", "M">> =>
              parseTimeMinsV4_(calc.stops[k].time) = 975 /\ (t = 975 => calc.period = "PM")

\* a route whose earliest time, 6:42 AM, is not at its first stop and whose school
\* name carries another period
C26_Witness ==
  /\ calc.fn = "period" /\ calc.done
  /\ Len(calc.stops) >= 2
  /\ calc.stops[Len(calc.stops)].time = <<"6", ":", "4", "2", " ", "A", "M">>
  /\ calc.stops[1].time = <<"4", ":", "1", "5", " ", "P", "M">>
  /\ HasWord(toUpperCase(calc.schoolName), <<"P", "M">>)
  /\ calc.period = "AM"

\* C27: each number of the raw newline-separated list has every non-digit character
\* stripped, loses its leading digit when that leaves 11 digits beginning with 1, is
\* written XXX-XXX-XXXX exactly when it then has 10 digits and is left as the
\* stripped digits otherwise; duplicates are removed, first-seen order kept;
\* "1-410-555-0100" yields "410-555-0100"
C27_PhonesNormalized ==
  (calc.fn = "phones" /\ calc.done) =>
    LET Stated(number) ==
          LET digits == SelectSeq(number, IsDigit)
              national == IF Len(digits) = 11 /\ digits[1] = "1" THEN Tail(digits) ELSE digits
          IN IF Len(national) = 10
             THEN SubSeq(national, 1, 3) \o <<"-">> \o SubSeq(national, 4, 6)
                  \o <<"-">> \o SubSeq(national, 7, 10)
             ELSE national
        stated == [k \in 1..Len(calc.numbers) |-> Stated(calc.numbers[k])]
        first == SelectSeq([k \in 1..Len(stated) |->
                              IF stated[k] # <<>> /\ \A j \in 1..(k - 1) : stated[j] # stated[k]
                              THEN stated[k] ELSE <<>>],
                           LAMBDA p : p # <<>>)
    IN /\ calc.out = JoinLines(first)
       /\ calc.numbers = <<<<"1", "-", "4", "1", "0", "-", "5", "5", "5", "-", "0", "1", "0", "0">>>> => calc.out = <<"4", "1", "0", "-", "5", "5", "5", "-", "0", "1", "0", "0">>

\* the document of the scenario, with a last-updated time, and the answers of the
\* scenario: one route with the one stop, its bus number and school name left out
\* or those of the document, and the geocoder's match
ScenarioCase ==
  /\ calc.fn = "scenario"
  /\ calc.fileName = <<"0", "2", "1", " ", "G", "U", "I", "L", "F", "O", "R", "D", " ", "P", "A", "R", "K", ".", "p", "d", "f">> /\ calc.folderName = <<"2", "1">>
  /\ calc.updatedMs # 0
  /\ Len(calc.reply) = 1 /\ calc.reply[1].stops = <<MainStop>>
  /\ normalizeBusV4_(calc.reply[1].busNumber) \in {<<>>, <<"0", "2", "1">>}
  /\ canonicalizeSchoolV4_(calc.reply[1].schoolName) \in {<<>>, <<"G", "U", "I", "L", "F", "O", "R", "D", " ", "P", "A", "R", "K">>}
  /\ calc.geo = [found |-> TRUE, lat |-> "39.12345", lng |-> "-76.54321"]

\* C28: for the scanned document "021 GUILFORD PARK.pdf" in bus folder "21", with
\* extraction returning the one stop 6:42 AM / 123 Main St with one student and the
\* geocoder returning (39.12345, -76.54321), the run publishes exactly one JSON
\* artifact, Bus Stops/021/GUILFORD PARK (AM).json, holding exactly that stop with
\* those coordinates and meta.sourceFileName "021 GUILFORD PARK.pdf", and marks the
\* item processed
C28_EndToEnd ==
  (ScenarioCase /\ calc.phase = "done") =>
    LET jsons == SelectSeq(calc.drive, LAMBDA f : f.kind = "json") IN
    /\ Len(jsons) = 1
    /\ jsons[1].folder = <<"0", "2", "1">>
    /\ jsons[1].name = <<"G", "U", "I", "L", "F", "O", "R", "D", " ", "P", "A", "R", "K", " ", "(", "A", "M", ")", ".", "j", "s", "o", "n">>
    /\ jsons[1].content.meta.sourceFileName = <<"0", "2", "1", " ", "G", "U", "I", "L", "F", "O", "R", "D", " ", "P", "A", "R", "K", ".", "p", "d", "f">>
    /\ jsons[1].content.period = "AM"
    /\ Len(jsons[1].content.stops) = 1
    /\ jsons[1].content.stops[1].time = <<"6", ":", "4", "2", " ", "A", "M">>
    /\ jsons[1].content.stops[1].location = <<"1", "2", "3", " ", "M", "a", "i", "n", " ", "S", "t">>
    /\ jsons[1].content.stops[1].students = 1
    /\ jsons[1].content.stops[1].latitude = "39.12345"
    /\ jsons[1].content.stops[1].longitude = "-76.54321"
    /\ calc.item.fileId \in DOMAIN calc.processed
    /\ calc.processed[calc.item.fileId] = Fingerprint(calc.item)

\* the run of the scenario is over, the answer having named neither bus nor school
C28_Witness ==
  /\ ScenarioCase /\ calc.phase = "done"
  /\ calc.reply[1].busNumber = <<>> /\ calc.reply[1].schoolName = <<>>
  /\ calc.drive # <<>>

\* C29: the generative call is made again, while the budget lasts, when and only
\* when the call before it failed transiently (HTTP 429 or 5xx, or a thrown fetch
\* error); a non-transient HTTP error, a missing key and unparsable response text
\* cause no further call
C29_RetryOnlyTransient ==
  (calc.fn = "retry" /\ calc.status \in {"done", "failed"}) =>
    /\ ~calc.hasKey => calc.outcomes = <<>>
    /\ \A k \in 1..Len(calc.outcomes) :
         k < Len(calc.outcomes) <=>
           (calc.outcomes[k] \in {"http429", "http503", "fetch_error"} /\ k < calc.attempts)

\* C30: called with attempts >= 1 the executor invokes the operation at most
\* `attempts` times; it returns the result of the first invocation that does not
\* throw, every invocation before it having thrown and none following it; it has
\* waited once after each failed attempt that was followed by another, never after
\* the last attempt or a success, the k-th wait being at least baseMs * 2^(k-1) and
\* less than that plus the jitter bound; after `attempts` failures it rethrows the
\* last error
C30_RetryExecutor ==
  (calc.fn = "retry" /\ calc.attempts >= 1 /\ calc.hasKey) =>
    LET calls == Len(calc.outcomes)
        failed == {k \in 1..calls : calc.outcomes[k] = "fetch_error"}
    IN /\ calls <= calc.attempts
       /\ \A k \in 1..(calls - 1) : k \in failed
       /\ calc.status = "loop" => Len(calc.waits) = calls /\ failed = 1..calls
       /\ calc.status = "returned" =>
            /\ calls \notin failed /\ calc.result = calc.outcomes[calls]
            /\ Len(calc.waits) = calls - 1
       /\ (calc.status = "failed" /\ calc.thrown = "fetch_error") =>
            /\ calls = calc.attempts /\ failed = 1..calls
            /\ Len(calc.waits) = calc.attempts - 1
       /\ (calc.status = "failed" /\ calls = calc.attempts /\ failed = 1..calls) =>
            calc.thrown = "fetch_error"
       /\ \A k \in 1..Len(calc.waits) :
            /\ calc.waits[k] >= calc.baseMs * Pow2(k - 1)
            /\ calc.waits[k] < calc.baseMs * Pow2(k - 1) + JITTER_MS_V4

\* three attempts have failed with two waits between them, and the error is rethrown
C30_Witness ==
  /\ calc.fn = "retry" /\ calc.attempts = 3 /\ calc.status = "failed"
  /\ Len(calc.outcomes) = 3 /\ Len(calc.waits) = 2 /\ calc.thrown = "fetch_error"

\* the runs the persisted queue still needs before it is used up
RunsLeft ==
  LET state == loadStateV4_(disk) IN
  IF MoreToDo(state) THEN (Len(state.queue) - state.pos + BATCH_SIZE_V4 - 1) \div BATCH_SIZE_V4
  ELSE 0

\* the entrypoint keeps being invoked: the executions still to come are enough
\* to end the pass under way and to make the next one
RunsAhead ==
  budget.invoked + RunsLeft + RunsNeeded(Cardinality(DOMAIN src)) <= MaxInvokes

\* between two executions, document f is in the window and its fingerprint
\* differs from the persisted processed[f] (or there is none)
StaleDocument(f) ==
  /\ AllIdle
  /\ f \in DOMAIN src
  /\ FingerprintDiffers(loadStateV4_(disk).processed, MakeItem(f, src[f]))

\* a run has put document f, with the timestamp it has now, through extraction
Reprocessed(f) ==
  /\ pc["a"] = "batch" /\ mem["a"].pos > 0
  /\ lastItem.fileId = f /\ lastItem.extracted
  /\ mem["a"].queue[mem["a"].pos] = MakeItem(f, src[f])

ModificationNotLost ==
  \A f \in Files : (StaleDocument(f) /\ src[f] # 0 /\ RunsAhead) ~> Reprocessed(f)

\* a document was edited after the queue holding it was built, and a later
\* pass has reprocessed it
ModifiedAfterBuild ==
  \E f \in Files :
    /\ Reprocessed(f) /\ budget.touched > 0 /\ src[f] # InitialMs(f)
    /\ f \in DOMAIN mem["a"].processed
    /\ mem["a"].processed[f] # Fingerprint(MakeItem(f, src[f]))

\* a PDF with OCR text and the API key set, answered with HTTP 200 and a
\* candidate text
Answered ==
  /\ calc.item.routeType = "SPECED_PDF" /\ trim(calc.ocr) # <<>> /\ calc.hasKey
  /\ calc.res.code = 200 /\ calc.res.json /\ calc.res.hasText

\* the candidate text is not valid JSON, or not an array, or an array that
\* holds no route
MalformedReply ==
  /\ Answered
  /\ \/ ~calc.res.text.valid
     \/ calc.res.text.kind # "array"
     \/ /\ calc.res.text.items # <<>>
        /\ \A k \in 1..Len(calc.res.text.items) : ~calc.res.text.items[k].isRoute

C33_EmptyOcrIsWarning ==
  (/\ calc.phase = "done" /\ calc.item.routeType = "SPECED_PDF"
   /\ \A k \in 1..Len(calc.ocr) : IsSpace(calc.ocr[k])) =>
    /\ calc.generativeCalls = 0
    /\ calc.geocodeCalls = 0
    /\ calc.drive = <<>>
    /\ calc.logs = <<"WARN">>
    /\ calc.thrown = "none"

\* the OCR copy of a PDF held only whitespace, the API key is not set, and the
\* item has ended with its warning
C33_Witness ==
  /\ calc.phase = "done" /\ calc.item.routeType = "SPECED_PDF"
  /\ calc.ocr # <<>> /\ calc.text = <<>> /\ ~calc.hasKey
  /\ calc.logs = <<"WARN">> /\ calc.generativeCalls = 0

\* the Normalizer's form of one phone number: non-digits stripped, a leading
\* country code 1 dropped, XXX-XXX-XXXX for ten digits
CanonicalPhone(raw) ==
  LET digits == SelectSeq(raw, IsDigit)
      national == IF Len(digits) = 11 /\ digits[1] = "1" THEN Tail(digits) ELSE digits
  IN IF Len(national) = 10
     THEN SubSeq(national, 1, 3) \o <<"-">> \o SubSeq(national, 4, 6) \o <<"-">> \o SubSeq(national, 7, 10)
     ELSE national

\* C34: in every artifact the unified pipeline publishes, each student's
\* phoneNumber is in the Normalizer's canonical form, whatever raw form the
\* extraction returned.
C34_PublishedPhonesCanonical ==
  calc.phase = "done" =>
    \A f \in 1..Len(calc.drive) :
      calc.drive[f].kind = "json" =>
        \A k \in 1..Len(calc.drive[f].content.stops) :
          LET students == calc.drive[f].content.stops[k].students IN
          \A j \in 1..Len(students) :
            students[j].phoneNumber = CanonicalPhone(students[j].phoneNumber)

\* C35: the keyword scan of the school name is consulted only when no stop
\* time of the route parses (with a parseable time the name makes no
\* difference to the period); when none parses, a name containing PM gives PM
\* and a name without a keyword gives "Route".
C35_KeywordsOnlyWithoutTimes ==
  (calc.fn = "period" /\ calc.done) =>
    LET up == toUpperCase(calc.schoolName) IN
    IF ParseableTimes(calc.stops) # {}
    THEN calc.period = canonicalPeriodV4_(calc.stops, <<>>)
    ELSE /\ HasWord(up, <<"P", "M">>) => calc.period = "PM"
         /\ (~HasWord(up, <<"A", "M">>) /\ ~HasWord(up, <<"P", "M">>) /\ ~HasMidDay(up)) =>
              calc.period = "Route"

\* C36: after cleaning a route, no remaining stop has an empty location, a
\* location equal to the route's school name ignoring case, or a location
\* that matches a maneuver instruction; and every input stop with none of
\* these defects that repeats no earlier stop's (time, location) is kept.
C36_DropsExactlyTheDefective ==
  (calc.fn = "clean" /\ calc.done) =>
    \A r \in 1..Len(calc.routes) :
      LET out == calc.mapped[r].stops
          school == calc.mapped[r].schoolName
          arr == calc.routes[r].stops
          Defective(loc) ==
            loc = <<>> \/ toLowerCase(loc) = toLowerCase(school) \/ IsManeuver(loc)
          Cleaned(k) == [time |-> normalizeTimeV4_(arr[k].time),
                         location |-> cleanLocationV4_(arr[k].location)]
      IN /\ \A o \in 1..Len(out) : ~Defective(out[o].location)
         /\ \A k \in 1..Len(arr) :
              (/\ ~Defective(Cleaned(k).location)
               /\ \A j \in 1..(k - 1) : PairKey(Cleaned(j)) # PairKey(Cleaned(k))) =>
                \E o \in 1..Len(out) :
                  /\ out[o].time = Cleaned(k).time /\ out[o].location = Cleaned(k).location
                  /\ out[o].students = arr[k].students

\* where publishRoutesV4_ writes a cleaned route: the bus folder and the stem
ArtifactPlace(route) ==
  <<route.busNumber, canonicalRouteFileStemV4_(route.schoolName, route.stops)>>

\* C37: the cleaned routes of one work item are published under pairwise
\* distinct (bus folder, canonical artifact name) pairs, so that none of them
\* is overwritten by another route of the item: as many JSON artifacts are in
\* the folders after the item as it had cleaned routes.
C37_DistinctArtifactPlaces ==
  calc.phase = "done" =>
    /\ \A a, b \in 1..Len(calc.cleaned) :
         a # b => ArtifactPlace(calc.cleaned[a]) # ArtifactPlace(calc.cleaned[b])
    /\ Len(SelectSeq(calc.drive, LAMBDA f : f.kind = "json")) = Len(calc.cleaned)

\* the cursor of the queue generation: the running execution's inside its
\* loop, the persisted one between the loops, the queue's end once the queue
\* has been cleared
GenerationCursor ==
  IF pc["a"] = "batch" THEN mem["a"].pos
  ELSE IF loadStateV4_(disk).queue # <<>> THEN loadStateV4_(disk).pos
  ELSE pass.len

\* C38: within one queue generation, with no run aborted by a run-level
\* exception, the positions up to the cursor have been visited exactly once
\* and those after it not at all, across the continuation runs, so that every
\* position is visited exactly once when the queue is cleared; the persisted
\* cursor never decreases while the queue is kept.
C38_EachPositionOnce ==
  /\ [](\A p \in 1..pass.len : pass.visits[p] = IF p <= GenerationCursor THEN 1 ELSE 0)
  /\ [][(disk.exists /\ disk.doc.queue # <<>> /\ disk'.doc.queue = disk.doc.queue) =>
          disk'.doc.pos >= disk.doc.pos]_vars

\* a queue longer than one batch has been walked to its end by a continuation
\* run and cleared
C38_Witness ==
  /\ AllIdle /\ exit = "complete" /\ disk.doc.queue = <<>>
  /\ pass.len > BATCH_SIZE_V4 /\ pass.runs >= 2
  /\ \A p \in 1..pass.len : pass.visits[p] = 1

\* C39: after any sequence of runs at most one continuation trigger of the
\* sync entrypoint is pending: the step that schedules a continuation leaves
\* exactly one, whatever was pending before it, and the step that completes
\* the queue leaves none.
C39_AtMostOneContinuation ==
  /\ [](triggers.cont <= 1)
  /\ [][\A i \in Invocations :
          (pc[i] = "batch" /\ pc'[i] = "finally" /\ exit' # "exception") =>
            triggers'.cont = IF exit' = "continued" THEN 1 ELSE 0]_vars

\* a run has scheduled its continuation after an earlier run had scheduled
\* one and then failed to save
C39_Witness ==
  /\ exit = "continued" /\ triggers.cont = 1
  /\ budget.invoked >= 2 /\ budget.faults >= 1 /\ logSheet >= 2
  /\ \E i \in Invocations : pc[i] = "finally"

\* C40: when the state document is missing or its text does not parse,
\* loading yields the empty state without raising; the run then rebuilds the
\* queue from the sources, works through its batch and saves a state document
\* that parses and keeps its cursor within its queue.
C40_RecoversFromBadState ==
  /\ [][(pc["a"] = "locked" /\ pc'["a"] = "batch" /\ ~(disk.exists /\ disk.parses)) =>
          /\ loadStateV4_(disk) = EmptyState
          /\ mem'["a"] = rebuildQueueV4_(EmptyState, src)]_vars
  /\ [][(pc["a"] = "batch" /\ pc'["a"] = "finally" /\ ~(disk.exists /\ disk.parses)) =>
          /\ exit' # "exception"
          /\ mem["a"].pos = Min(BATCH_SIZE_V4, pass.len)
          /\ disk' = saveStateV4_(Finished(mem["a"]))]_vars
  /\ <>(disk.exists /\ disk.parses /\ CursorInQueue(disk.doc))

\* on a damaged state document, a run has rebuilt the queue and published a
\* document that the damaged text records as processed
C40_Witness ==
  /\ disk.exists /\ ~disk.parses
  /\ pc["a"] = "batch" /\ mem["a"].pos > 0 /\ lastItem.kind = "ok"
  /\ lastItem.fileId \in DOMAIN disk.doc.processed
  /\ disk.doc.processed[lastItem.fileId] = mem["a"].processed[lastItem.fileId]
====
